---- MODULE Spec2Model ----
(***************************************************************************)
(* Model of the pixel assignment engine of obamify: the exact matcher      *)
(* (process_optimal, an inlined Kuhn-Munkres), the local-search matchers   *)
(* (process_genetic, drawing_process_genetic), the progress channel and    *)
(* the part of the GUI that consumes it.                                   *)
(*                                                                         *)
(* Arrays keep the 0-based indices of the source: a Vec of length n is a   *)
(* function with domain 0..n-1.  Option<usize> is an index or None.        *)
(***************************************************************************)
EXTENDS Integers, Sequences, FiniteSets, TLC

(***************************************************************************)
(* Bounds of the model.                                                    *)
(***************************************************************************)
\* largest side length of the working grid (settings.sidelen / target.width())
MaxSidelen == 2
\* largest number of cells of an input image that differ from the background
MaxPainted == 2
\* proposals per generation of the local search (200000 in the program)
SWAPS_PER_GENERATION == 2
\* side of the drawing canvas (128 in the program); the swap radius of
\* drawing mode starts at DRAWING_CANVAS_SIZE / 4
DRAWING_CANVAS_SIZE == 4
\* proposals per generation of the drawing solver
\* (SWAPS_PER_GENERATION_PER_PIXEL * pixels.len() in the program)
swaps_per_generation == 1
\* calls of init_canvas in a run of the program
MaxSessions == 2
\* strokes the user draws
MaxStrokes == 1
\* frames counted by frame_count
MaxFrames == 1
\* generations of a run of the command-line local search
MaxGenerations == 2
\* largest age (in frames) at which the swap radius is computed on its own
MaxAge == 2100
\* accepted swaps below which a generation of process_genetic counts as
\* converged (10 in the program, out of 200000 proposals)
ConvergedSwaps == 2
\* frames that pass in a row while the canvas is left alone
SettleFrames == 2070

(***************************************************************************)
(* Program constants.                                                      *)
(***************************************************************************)
\* mpsc::sync_channel::<ProgressMsg>(1)
ChannelCapacity == 1
\* if root % 100 == 0
ProgressCadence == 100
\* the uniform weight of a custom target
UniformWeight == 255
\* process_genetic ends when max_dist < 4 && swaps_made < ConvergedSwaps
ConvergedDist == 4

None == -1

VARIABLES
    \* ---- the inputs of a solve ----
    sidelen,                \* settings.sidelen, target.width()
    source_pixels,          \* Vec<(u8,u8,u8)>
    target_pixels,          \* Vec<(u8,u8,u8)>
    weights,                \* Vec<i64>, one per target cell
    proximity_importance,   \* settings.proximity_importance
    target_dimensions,      \* target.dimensions() of the image file, <<w, h>>
    weights_dimensions,     \* target_weights.dimensions() of the image file
    target_arch,            \* the build: "native" or "wasm32"
    \* ---- process_optimal ----
    opc,                    \* position of the solver thread in process_optimal
    root, xy, yx, lx, ly, s, alternating, slack, slackx, y,
    \* ---- process_genetic ----
    gpc,                    \* position of the solver thread in process_genetic
    pixels,                 \* Vec<Pixel>: the pixel placed at every target cell
    max_dist,               \* the swap radius of the generation
    swaps_made,             \* accepted swaps of the generation
    swap_i,                 \* proposals made in the generation
    \* ---- progress channel and its consumer ----
    chan,                   \* the messages buffered in the sync_channel
    cancel,                 \* gui.process_cancelled, the AtomicBool
    show_progress_modal,    \* gui.show_progress_modal.is_some()
    last_progress,          \* gui.last_progress as <<root, nx>>
    preview_image,          \* self.preview_image (None or an image)
    presets,                \* gui.presets: the assignments of the Done presets
    sim_assignments,        \* the assignments last given to sim.set_assignments
    gui_pc,                 \* position of the UI thread in ObamifyApp::update
    \* ---- drawing mode ----
    mode,                   \* gui.mode: "Transform" or "Draw"
    current_drawing_id,     \* the AtomicU32 shared with the drawing solvers
    frame_count,            \* self.frame_count
    stroke_count,           \* self.stroke_count
    colors,                 \* self.colors, the RwLock<Vec<SeedColor>>
    pixeldata,              \* self.pixeldata, the RwLock<Vec<PixelData>>
    solvers,                \* the threads spawned by init_canvas, by my_id
    \* ---- two runs of one local search, side by side ----
    generator,              \* how the runs get their random generator
    runs,                   \* the two runs
    \* ---- the receiving end of the channel ----
    rx_dropped,             \* progress_rx was dropped (the application is gone)
    \* ---- a function of the program applied to arguments ----
    call,                   \* the function and its arguments
    result                  \* what it returned: <<>> before the call, then <<v, ..>>

inputVars == <<sidelen, source_pixels, target_pixels, weights, proximity_importance,
               target_dimensions, weights_dimensions, target_arch>>
optVars == <<opc, root, xy, yx, lx, ly, s, alternating, slack, slackx, y>>
genVars == <<gpc, pixels, max_dist, swaps_made, swap_i>>
guiVars == <<show_progress_modal, last_progress, preview_image, presets,
             sim_assignments, gui_pc>>
drawVars == <<mode, current_drawing_id, frame_count, stroke_count, colors, pixeldata,
              solvers>>
runVars == <<generator, runs>>
fnVars == <<call, result>>
vars == <<inputVars, optVars, genVars, chan, cancel, guiVars, drawVars, runVars,
          rx_dropped, fnVars>>

(***************************************************************************)
(* Images and inputs.                                                      *)
(***************************************************************************)
Cells(S) == 0 .. (S * S - 1)

black == <<0, 0, 0>>
dark  == <<10, 0, 0>>
red   == <<255, 0, 0>>
green == <<0, 255, 0>>
blue  == <<0, 0, 255>>
white == <<255, 255, 255>>

\* The pictures the inputs are made from: 2x2 pictures with a black background
\* and at most MaxPainted dark cells.
Pictures ==
    {pic \in [Cells(2) -> {black, dark}] :
        Cardinality({c \in Cells(2) : pic[c] # black}) <= MaxPainted}

\* the 2x2 scenario of the spec, row-major: index = y * sidelen + x
ScenarioSource == (0 :> red) @@ (1 :> green) @@ (2 :> blue) @@ (3 :> white)
ScenarioTarget == (0 :> white) @@ (1 :> blue) @@ (2 :> green) @@ (3 :> red)

\* A picture resampled to the working grid of side S (nearest neighbour), as
\* the images reach the matchers: CropScale::apply resizes to sidelen.
Resample(pic, S) ==
    [c \in Cells(S) |-> pic[((2 * (c \div S)) \div S) * 2 + ((2 * (c % S)) \div S)]]

SourceImages(S) == {Resample(pic, S) : pic \in Pictures \cup {ScenarioSource}}
TargetImages(S) == {Resample(pic, S) : pic \in Pictures \cup {ScenarioTarget}}

\* load_weights: the red channel of the weight image; uniform for a custom target
WeightMaps(S) ==
    { [c \in Cells(S) |-> UniformWeight],
      [c \in Cells(S) |-> 1],
      [c \in Cells(S) |-> c % 3] }

ProximityValues == {0, 10}

InitInputs ==
    /\ sidelen \in 1 .. MaxSidelen
    /\ source_pixels \in SourceImages(sidelen)
    /\ target_pixels \in TargetImages(sidelen)
    /\ weights \in WeightMaps(sidelen)
    /\ proximity_importance \in ProximityValues
    /\ target_dimensions = <<sidelen, sidelen>>
    /\ weights_dimensions = <<sidelen, sidelen>>

ScenarioInputs ==
    /\ sidelen = 2
    /\ source_pixels = ScenarioSource
    /\ target_pixels = ScenarioTarget
    /\ weights = [c \in Cells(2) |-> UniformWeight]
    /\ proximity_importance = 0

\* images with a black background and at most one dark cell, taken from ps
SparseImages(S, ps) ==
    {[c \in Cells(S) |-> black]}
    \cup {[c \in Cells(S) |-> IF c = p THEN dark ELSE black] : p \in ps}

\* Inputs on the smallest grid on which the radius of process_genetic starts
\* at the threshold ConvergedDist, so that a solve takes several generations.
\* With a proximity term the dark cell of the target is the first cell, a
\* neighbour of it or the last cell.
InitLargeInputs ==
    /\ sidelen = ConvergedDist
    /\ target_dimensions = <<sidelen, sidelen>>
    /\ weights_dimensions = <<sidelen, sidelen>>
    /\ source_pixels \in SparseImages(sidelen, {0})
    /\ weights = [c \in Cells(sidelen) |-> UniformWeight]
    /\ \/ /\ target_pixels \in SparseImages(sidelen, Cells(sidelen))
          /\ proximity_importance = 0
       \/ /\ target_pixels \in SparseImages(sidelen, {0, 1, sidelen + 1,
                                                       sidelen * sidelen - 1})
          /\ proximity_importance \in ProximityValues

(***************************************************************************)
(* Cost model.                                                             *)
(***************************************************************************)
\* a faulty variant of heuristic: the spatial term is not squared
heuristic_Linear(apos, bpos, a, b, color_weight, spatial_weight) ==
    LET spatial == (apos[1] - bpos[1]) ^ 2 + (apos[2] - bpos[2]) ^ 2
        color   == (a[1] - b[1]) ^ 2 + (a[2] - b[2]) ^ 2 + (a[3] - b[3]) ^ 2
    IN  color * color_weight + spatial * spatial_weight

\* heuristic: the cost of a pixel at a cell, in i64
heuristic(apos, bpos, a, b, color_weight, spatial_weight) ==
    LET spatial == (apos[1] - bpos[1]) ^ 2 + (apos[2] - bpos[2]) ^ 2
        color   == (a[1] - b[1]) ^ 2 + (a[2] - b[2]) ^ 2 + (a[3] - b[3]) ^ 2
    IN  color * color_weight + (spatial * spatial_weight) ^ 2

at_NotNegated(row, col) ==
    heuristic(<<row % sidelen, row \div sidelen>>, <<col % sidelen, col \div sidelen>>,
              target_pixels[row], source_pixels[col], weights[row], proximity_importance)

\* ImgDiffWeights::at
at(row, col) ==
    LET x1 == row % sidelen
        y1 == row \div sidelen
        x2 == col % sidelen
        y2 == col \div sidelen
    IN  0 - heuristic(<<x1, y1>>, <<x2, y2>>, target_pixels[row], source_pixels[col],
                      weights[row], proximity_importance)

rows == sidelen * sidelen       \* weights.rows() = target.len()
columns == sidelen * sidelen    \* weights.columns() = source.len()
nx == rows
ny == columns

(***************************************************************************)
(* Progress messages and the native channel.                               *)
(***************************************************************************)
\* make_new_img: the colour of the assigned source pixel at every target cell
make_new_img(assignments) ==
    [target_idx \in DOMAIN assignments |-> source_pixels[assignments[target_idx]]]

MsgProgress(num, den) == [typ |-> "progress", num |-> num, den |-> den]
MsgUpdatePreview(img) ==
    [typ |-> "update_preview", width |-> sidelen, height |-> sidelen, data |-> img]
MsgUpdateAssignments(assignments) ==
    [typ |-> "update_assignments", assignments |-> assignments]
MsgDone(assignments) == [typ |-> "done", assignments |-> assignments]
MsgError(text) == [typ |-> "error", text |-> text]
MsgCancelled == [typ |-> "cancelled"]

\* SyncSender::send on a sync_channel(ChannelCapacity): the call returns once
\* the message is in the buffer, and waits while the buffer is full.  The
\* receiver is owned by the application and lives as long as it.  In the
\* browser build the sink is the closure of worker_entry, whose post_message
\* never waits, and chan is the inbox of the application.
CanSend == target_arch = "wasm32" \/ Len(chan) < ChannelCapacity
Send(msg) ==
    /\ CanSend
    /\ chan' = Append(chan, msg)

\* ProgressSink::send of the SyncSender, "let _ = SyncSender::send(self, msg)",
\* and tx.send(..).ok(): once the receiver is dropped send returns Err at
\* once, and the Err is discarded
SinkSend(msg) ==
    IF rx_dropped THEN UNCHANGED chan ELSE Send(msg)

(***************************************************************************)
(* process_optimal: Kuhn-Munkres with progress reports and cancellation.   *)
(***************************************************************************)
RECURSIVE MaxOver(_, _, _)
\* (0..ny).map(|col| weights.at(row, col)).max()
MaxOver(row, col, best) ==
    IF col = ny THEN best
    ELSE MaxOver(row, col + 1, IF at(row, col) > best THEN at(row, col) ELSE best)

InitialLx == [row \in 0 .. nx - 1 |-> MaxOver(row, 1, at(row, 0))]

\* Bounded::max_value(), the initial delta of a selection
max_value == 2147483647

RECURSIVE SelectSlack_LastOnTies(_, _)
\* the scan with "<=" for "<": the last of the smallest slacks is selected
SelectSlack_LastOnTies(yy, acc) ==
    IF yy = sidelen * sidelen THEN acc
    ELSE IF alternating[yy] = None /\ slack[yy] <= acc.delta
         THEN SelectSlack_LastOnTies(yy + 1,
                                     [delta |-> slack[yy], x |-> slackx[yy], y |-> yy])
         ELSE SelectSlack_LastOnTies(yy + 1, acc)

RECURSIVE SelectSlack(_, _)
\* the scan "for yy in 0..ny" that selects the smallest slack of a y outside
\* the alternating path, the first one on ties
SelectSlack(yy, acc) ==
    IF yy = ny THEN acc
    ELSE IF alternating[yy] = None /\ slack[yy] < acc.delta
         THEN SelectSlack(yy + 1, [delta |-> slack[yy], x |-> slackx[yy], y |-> yy])
         ELSE SelectSlack(yy + 1, acc)

Selected == SelectSlack(0, [delta |-> max_value, x |-> 0, y |-> 0])

\* a faulty label update: the labels of all x nodes are lowered
LxAfter_AllRows(delta) ==
    IF delta > 0 THEN [x \in 0 .. nx - 1 |-> lx[x] - delta] ELSE lx

\* "if delta > 0": the labels and slacks after removing the selected slack
LxAfter(delta) ==
    IF delta > 0 THEN [x \in 0 .. nx - 1 |-> IF x \in s THEN lx[x] - delta ELSE lx[x]]
    ELSE lx
\* a faulty label update: the labels of the y nodes of the path are not raised
LyAfter_NotRaised(delta) == ly

\* "ly[y] += delta" for the y nodes of the alternating path
LyAfter(delta) ==
    IF delta > 0
    THEN [yy \in 0 .. ny - 1 |-> IF alternating[yy] # None THEN ly[yy] + delta ELSE ly[yy]]
    ELSE ly
SlackAfter(delta) ==
    IF delta > 0
    THEN [yy \in 0 .. ny - 1 |-> IF alternating[yy] # None THEN slack[yy]
                                                        ELSE slack[yy] - delta]
    ELSE slack

\* the slack update left out: the slacks of the earlier tree nodes are kept
SlackWith_Stale(x, lxn, lyn, alt, sl) == sl

\* the slack update after x joined s ("for y in 0..ny" of lines 276-284), with
\* the labels lxn, lyn, the path alt and the slacks sl, slx of that moment
SlackWith(x, lxn, lyn, alt, sl) ==
    [yy \in 0 .. ny - 1 |->
        IF alt[yy] = None /\ sl[yy] > lxn[x] + lyn[yy] - at(x, yy)
        THEN lxn[x] + lyn[yy] - at(x, yy) ELSE sl[yy]]
SlackxWith(x, lxn, lyn, alt, sl, slx) ==
    [yy \in 0 .. ny - 1 |->
        IF alt[yy] = None /\ sl[yy] > lxn[x] + lyn[yy] - at(x, yy)
        THEN x ELSE slx[yy]]

\* a faulty augmentation: only the last edge of the path is inverted
Flip_LastEdgeOnly(yv, xyv, yxv) ==
    [xy |-> [xyv EXCEPT ![alternating[yv]] = yv],
     yx |-> [yxv EXCEPT ![yv] = alternating[yv]]]

RECURSIVE Flip(_, _, _)
\* "while y.is_some()": inverse the edges along the augmenting path
Flip(yv, xyv, yxv) ==
    IF yv = None THEN [xy |-> xyv, yx |-> yxv]
    ELSE LET x == alternating[yv]
             prec == xyv[x]
         IN  Flip(prec, [xyv EXCEPT ![x] = yv], [yxv EXCEPT ![yv] = x])

RECURSIVE SumOf(_, _)
SumOf(f, n) == IF n = 0 THEN 0 ELSE f[n - 1] + SumOf(f, n - 1)

\* lx.into_iter().sum() + ly.into_iter().sum()
total_diff == SumOf(lx, nx) + SumOf(ly, ny)

\* xy with unmatched targets shown as source index 0
PreviewAssignments == [x \in 0 .. nx - 1 |-> IF xy[x] = None THEN 0 ELSE xy[x]]

InitOptimal ==
    /\ opc = "root_start"
    /\ root = 0
    /\ xy = [x \in 0 .. nx - 1 |-> None]
    /\ yx = [yy \in 0 .. ny - 1 |-> None]
    /\ lx = InitialLx
    /\ ly = [yy \in 0 .. ny - 1 |-> 0]
    /\ s = {}
    /\ alternating = [yy \in 0 .. ny - 1 |-> None]
    /\ slack = [yy \in 0 .. ny - 1 |-> 0]
    /\ slackx = [yy \in 0 .. ny - 1 |-> 0]
    /\ y = None

\* the exact matcher is not running
IdleOptimal ==
    /\ opc = "idle"
    /\ root = 0
    /\ xy = <<>>
    /\ yx = <<>>
    /\ lx = <<>>
    /\ ly = <<>>
    /\ s = {}
    /\ alternating = <<>>
    /\ slack = <<>>
    /\ slackx = <<>>
    /\ y = None

\* lines 217-233: the next root starts its search
OptStartRoot ==
    /\ opc = "root_start"
    /\ root < nx
    /\ alternating' = [yy \in 0 .. ny - 1 |-> None]
    /\ s' = {root}
    /\ slack' = [yy \in 0 .. ny - 1 |-> lx[root] + ly[yy] - at(root, yy)]
    /\ slackx' = [yy \in 0 .. ny - 1 |-> root]
    /\ opc' = "search"
    /\ UNCHANGED <<root, xy, yx, lx, ly, y>>
    /\ UNCHANGED <<drawVars, runVars, inputVars, rx_dropped, fnVars, genVars, chan, cancel, guiVars>>

\* lines 234-285: one iteration of the search loop
OptSearchStep ==
    /\ opc = "search"
    /\ LET sel == Selected
           lxn == LxAfter(sel.delta)
           lyn == LyAfter(sel.delta)
           sln == SlackAfter(sel.delta)
           alt == [alternating EXCEPT ![sel.y] = sel.x]
       IN  /\ lx' = lxn
           /\ ly' = lyn
           /\ alternating' = alt
           /\ IF yx[sel.y] = None
              THEN /\ y' = sel.y
                   /\ opc' = "augment"
                   /\ slack' = sln
                   /\ UNCHANGED <<s, slackx>>
              ELSE /\ s' = s \cup {yx[sel.y]}
                   /\ slack' = SlackWith(yx[sel.y], lxn, lyn, alt, sln)
                   /\ slackx' = SlackxWith(yx[sel.y], lxn, lyn, alt, sln, slackx)
                   /\ UNCHANGED <<y, opc>>
    /\ UNCHANGED <<root, xy, yx>>
    /\ UNCHANGED <<drawVars, runVars, inputVars, rx_dropped, fnVars, genVars, chan, cancel, guiVars>>

\* lines 287-295: flip the path, then report on every ProgressCadence-th root
OptAugment ==
    /\ opc = "augment"
    /\ LET r == Flip(y, xy, yx)
       IN  /\ xy' = r.xy
           /\ yx' = r.yx
    /\ y' = None
    /\ IF root % ProgressCadence = 0
       THEN opc' = "report" /\ UNCHANGED root
       ELSE opc' = "root_start" /\ root' = root + 1
    /\ UNCHANGED <<lx, ly, s, alternating, slack, slackx>>
    /\ UNCHANGED <<drawVars, runVars, inputVars, rx_dropped, fnVars, genVars, chan, cancel, guiVars>>

\* line 299: cancel.load(Relaxed)
OptCheckCancel ==
    /\ opc = "report"
    /\ opc' = IF cancel THEN "send_cancelled" ELSE "send_progress"
    /\ UNCHANGED <<root, xy, yx, lx, ly, s, alternating, slack, slackx, y>>
    /\ UNCHANGED <<drawVars, runVars, inputVars, rx_dropped, fnVars, genVars, chan, cancel, guiVars>>

\* lines 300-301: tx.send(Cancelled); return Ok(())
OptSendCancelled ==
    /\ opc = "send_cancelled"
    /\ SinkSend(MsgCancelled)
    /\ opc' = "returned"
    /\ UNCHANGED <<root, xy, yx, lx, ly, s, alternating, slack, slackx, y>>
    /\ UNCHANGED <<drawVars, runVars, inputVars, rx_dropped, fnVars, genVars, cancel, guiVars>>

\* line 305: tx.send(Progress(root / nx))
OptSendProgress ==
    /\ opc = "send_progress"
    /\ SinkSend(MsgProgress(root, nx))
    /\ opc' = "send_preview"
    /\ UNCHANGED <<root, xy, yx, lx, ly, s, alternating, slack, slackx, y>>
    /\ UNCHANGED <<drawVars, runVars, inputVars, rx_dropped, fnVars, genVars, cancel, guiVars>>

\* lines 307-320: tx.send(UpdatePreview) of the partial matching, next root
OptSendPreview ==
    /\ opc = "send_preview"
    /\ SinkSend(MsgUpdatePreview(make_new_img(PreviewAssignments)))
    /\ opc' = "root_start"
    /\ root' = root + 1
    /\ UNCHANGED <<xy, yx, lx, ly, s, alternating, slack, slackx, y>>
    /\ UNCHANGED <<drawVars, runVars, inputVars, rx_dropped, fnVars, genVars, cancel, guiVars>>

\* lines 323-347: after the last root, tx.send(Done(assignments)); return
OptSendDone ==
    /\ opc = "root_start"
    /\ root = nx
    /\ SinkSend(MsgDone(xy))
    /\ opc' = "returned"
    /\ UNCHANGED <<root, xy, yx, lx, ly, s, alternating, slack, slackx, y>>
    /\ UNCHANGED <<drawVars, runVars, inputVars, rx_dropped, fnVars, genVars, cancel, guiVars>>

\* a faulty variant of load_target: the width is not compared with the height
load_target_NoSquareCheck ==
    IF target_dimensions # weights_dimensions
    THEN [ok |-> FALSE, err |-> "Target and weights images must have the same dimensions"]
    ELSE [ok |-> TRUE, err |-> ""]

\* load_target of src/src/calculate (lines 349-356): the Result of the
\* preparation of the inputs, Err with a description when the target is not
\* square or the weight image has other dimensions
load_target ==
    IF target_dimensions[1] # target_dimensions[2]
    THEN [ok |-> FALSE, err |-> "Target image must be square"]
    ELSE IF target_dimensions # weights_dimensions
    THEN [ok |-> FALSE, err |-> "Target and weights images must have the same dimensions"]
    ELSE [ok |-> TRUE, err |-> ""]

\* process_optimal opens with get_images(..)?: an Err of the preparation is
\* returned to the closure that called the solver before anything is sent;
\* otherwise the labels and the matching are initialised (lines 190-215)
OptGetImages ==
    /\ opc = "get_images"
    /\ IF load_target.ok
       THEN /\ opc' = "root_start"
            /\ root' = 0
            /\ xy' = [x \in 0 .. nx - 1 |-> None]
            /\ yx' = [yy \in 0 .. ny - 1 |-> None]
            /\ lx' = InitialLx
            /\ ly' = [yy \in 0 .. ny - 1 |-> 0]
            /\ s' = {}
            /\ alternating' = [yy \in 0 .. ny - 1 |-> None]
            /\ slack' = [yy \in 0 .. ny - 1 |-> 0]
            /\ slackx' = [yy \in 0 .. ny - 1 |-> 0]
            /\ y' = None
       ELSE /\ opc' = "send_error"
            /\ UNCHANGED <<root, xy, yx, lx, ly, s, alternating, slack, slackx, y>>
    /\ UNCHANGED <<drawVars, runVars, inputVars, rx_dropped, fnVars, genVars, chan, cancel, guiVars>>

\* the closure of the solver thread: if let Err(err) = result
\* { tx.send(ProgressMsg::Error(err.to_string())).ok(); }
OptSendError ==
    /\ opc = "send_error"
    /\ SinkSend(MsgError(load_target.err))
    /\ opc' = "returned"
    /\ UNCHANGED <<root, xy, yx, lx, ly, s, alternating, slack, slackx, y>>
    /\ UNCHANGED <<drawVars, runVars, inputVars, rx_dropped, fnVars, genVars, cancel, guiVars>>

process_optimal ==
    \/ OptStartRoot
    \/ OptSearchStep
    \/ OptAugment
    \/ OptCheckCancel
    \/ OptSendCancelled
    \/ OptSendProgress
    \/ OptSendPreview
    \/ OptSendDone

(***************************************************************************)
(* process_genetic: local search by random pairwise swaps (batch mode).    *)
(***************************************************************************)
\* casts "as u16" and "as i16" of values that are never negative here
AsU16(v) == v % 65536

Clamp(v, lo, hi) == IF v < lo THEN lo ELSE IF v > hi THEN hi ELSE v

\* Pixel::calc_heuristic
calc_heuristic(p, target_pos, target_col, weight) ==
    heuristic(<<p.src_x, p.src_y>>, target_pos, p.rgb, target_col, weight,
              proximity_importance)

\* lines 427-443: pixel i starts at cell i with its cost there cached
InitialPixels ==
    [i \in 0 .. sidelen * sidelen - 1 |->
        LET x == AsU16(i % sidelen)
            yy == AsU16(i \div sidelen)
            p == [src_x |-> x, src_y |-> yy, rgb |-> source_pixels[i], h |-> 0]
        IN  [p EXCEPT !.h = calc_heuristic(p, <<x, yy>>, target_pixels[i], weights[i])]]

\* lines 497-500: the assignment read off the pixels
AssignmentsOf(px) == [i \in DOMAIN px |-> px[i].src_y * sidelen + px[i].src_x]

\* a faulty variant of Accepts: the swap is accepted as soon as pixel a alone improves
Accepts_OnlyA(px, apos, bpos, a_on_b_h, b_on_a_h) ==
    px[apos].h - b_on_a_h > 0

\* a faulty variant of Accepts: a sum of zero is accepted as well
Accepts_NotStrict(px, apos, bpos, a_on_b_h, b_on_a_h) ==
    (px[apos].h - b_on_a_h) + (px[bpos].h - a_on_b_h) >= 0

\* lines 477-479: the swap of a and b is accepted
Accepts(px, apos, bpos, a_on_b_h, b_on_a_h) ==
    (px[apos].h - b_on_a_h) + (px[bpos].h - a_on_b_h) > 0

\* a faulty variant of Swapped: each pixel keeps the cost it had
Swapped_StaleCosts(px, apos, bpos, a_on_b_h, b_on_a_h) ==
    [i \in DOMAIN px |->
        IF i = bpos THEN px[apos] ELSE IF i = apos THEN px[bpos] ELSE px[i]]

\* a faulty variant of Swapped: a is copied onto b and b is lost
Swapped_Copy(px, apos, bpos, a_on_b_h, b_on_a_h) ==
    [i \in DOMAIN px |->
        IF i = bpos THEN [px[apos] EXCEPT !.h = a_on_b_h] ELSE px[i]]

\* lines 481-483: pixels.swap(apos, bpos) and the two cached costs
Swapped(px, apos, bpos, a_on_b_h, b_on_a_h) ==
    [i \in DOMAIN px |->
        IF i = bpos THEN [px[apos] EXCEPT !.h = a_on_b_h]
        ELSE IF i = apos THEN [px[bpos] EXCEPT !.h = b_on_a_h]
        ELSE px[i]]

\* a faulty variant of Converged: the accepted swaps are not looked at
Converged_DistOnly(d, n) == d < ConvergedDist

\* line 502: max_dist < 4 && swaps_made < 10
Converged(d, n) == d < ConvergedDist /\ n < ConvergedSwaps

\* max_dist = (max_dist as f32 * 0.99).max(2.0) as u32
DecayedDist(d) == IF (d * 99) \div 100 < 2 THEN 2 ELSE (d * 99) \div 100

InitGenetic ==
    /\ gpc = "swap"
    /\ pixels = InitialPixels
    /\ max_dist = sidelen
    /\ swaps_made = 0
    /\ swap_i = 0

\* the local search is not running
IdleGenetic ==
    /\ gpc = "idle"
    /\ pixels = <<>>
    /\ max_dist = 0
    /\ swaps_made = 0
    /\ swap_i = 0

\* a faulty variant of Partners: bpos is drawn from the whole grid
Partners_WholeGrid(apos) == 0 .. sidelen * sidelen - 1

\* lines 451-458: the cells a proposal can pair with apos: bx and by are the
\* coordinates of apos moved by a draw from -max_dist..max_dist and clamped
Partners(apos) ==
    LET ax == AsU16(apos) % AsU16(sidelen)
        ay == AsU16(apos) \div AsU16(sidelen)
        bxs == {Clamp(ax + d, 0, sidelen - 1) : d \in (0 - max_dist) .. max_dist}
        bys == {Clamp(ay + d, 0, sidelen - 1) : d \in (0 - max_dist) .. max_dist}
    IN  {by * sidelen + bx : bx \in bxs, by \in bys}

\* lines 463-475: the cost of the pixel at cell from when placed at cell to
OnOther(px, from, to) ==
    calc_heuristic(px[from], <<AsU16(to) % AsU16(sidelen), AsU16(to) \div AsU16(sidelen)>>,
                   target_pixels[to], weights[to])

\* lines 460-479 for the pair (apos, bpos): the two new costs and the decision
Proposal(px, apos, bpos) ==
    LET a_on_b_h == OnOther(px, apos, bpos)
        b_on_a_h == OnOther(px, bpos, apos)
    IN  [a_on_b_h |-> a_on_b_h, b_on_a_h |-> b_on_a_h,
         accepted |-> Accepts(px, apos, bpos, a_on_b_h, b_on_a_h)]

\* some proposal is not accepted (one with bpos = apos never is)
SomeRejected ==
    (\E apos \in 0 .. sidelen * sidelen - 1 : \E bpos \in Partners(apos) :
        ~Proposal(pixels, apos, bpos).accepted) = TRUE

\* lines 450-486: one proposal; the generator yields apos and the two offsets.
\* The proposals that are not accepted all leave the same state.
GenPropose ==
    /\ gpc = "swap"
    /\ \/ /\ SomeRejected
          /\ UNCHANGED <<pixels, swaps_made>>
       \/ \E apos \in 0 .. sidelen * sidelen - 1 : \E bpos \in Partners(apos) :
             LET prop == Proposal(pixels, apos, bpos)
             IN  /\ prop.accepted
                 /\ pixels' = Swapped(pixels, apos, bpos, prop.a_on_b_h, prop.b_on_a_h)
                 /\ swaps_made' = swaps_made + 1
    /\ swap_i' = swap_i + 1
    /\ gpc' = IF swap_i + 1 = SWAPS_PER_GENERATION THEN "check_cancel" ELSE "swap"
    /\ UNCHANGED max_dist
    /\ UNCHANGED <<drawVars, runVars, inputVars, rx_dropped, fnVars, optVars, chan, cancel, guiVars>>

\* lines 488-502: cancel.load(Relaxed), then the test of convergence
GenCheckCancel ==
    /\ gpc = "check_cancel"
    /\ gpc' = IF cancel THEN "send_cancelled"
              ELSE IF Converged(max_dist, swaps_made)
                   THEN "send_done" ELSE "send_preview"
    /\ UNCHANGED <<pixels, max_dist, swaps_made, swap_i>>
    /\ UNCHANGED <<drawVars, runVars, inputVars, rx_dropped, fnVars, optVars, chan, cancel, guiVars>>

\* lines 492-493: tx.send(Cancelled); return Ok(())
GenSendCancelled ==
    /\ gpc = "send_cancelled"
    /\ SinkSend(MsgCancelled)
    /\ gpc' = "returned"
    /\ UNCHANGED <<pixels, max_dist, swaps_made, swap_i>>
    /\ UNCHANGED <<drawVars, runVars, inputVars, rx_dropped, fnVars, optVars, cancel, guiVars>>

\* lines 504-513: tx.send(Done(assignments)); return Ok(())
GenSendDone ==
    /\ gpc = "send_done"
    /\ SinkSend(MsgDone(AssignmentsOf(pixels)))
    /\ gpc' = "returned"
    /\ UNCHANGED <<pixels, max_dist, swaps_made, swap_i>>
    /\ UNCHANGED <<drawVars, runVars, inputVars, rx_dropped, fnVars, optVars, cancel, guiVars>>

\* lines 515-520: tx.send(UpdatePreview)
GenSendPreview ==
    /\ gpc = "send_preview"
    /\ SinkSend(MsgUpdatePreview(make_new_img(AssignmentsOf(pixels))))
    /\ gpc' = "send_progress"
    /\ UNCHANGED <<pixels, max_dist, swaps_made, swap_i>>
    /\ UNCHANGED <<drawVars, runVars, inputVars, rx_dropped, fnVars, optVars, cancel, guiVars>>

\* lines 521-525: tx.send(Progress(1 - max_dist / width)), the radius decays
\* and the next generation starts
GenSendProgress ==
    /\ gpc = "send_progress"
    /\ SinkSend(MsgProgress(sidelen - max_dist, sidelen))
    /\ max_dist' = DecayedDist(max_dist)
    /\ swaps_made' = 0
    /\ swap_i' = 0
    /\ gpc' = "swap"
    /\ UNCHANGED pixels
    /\ UNCHANGED <<drawVars, runVars, inputVars, rx_dropped, fnVars, optVars, cancel, guiVars>>

process_genetic ==
    \/ GenPropose
    \/ GenCheckCancel
    \/ GenSendCancelled
    \/ GenSendDone
    \/ GenSendPreview
    \/ GenSendProgress

(***************************************************************************)
(* The consumer: the progress modal of ObamifyApp::update.                 *)
(***************************************************************************)
InitConsumer(arch) ==
    /\ target_arch = arch
    /\ chan = <<>>
    /\ rx_dropped = FALSE
    /\ cancel = FALSE
    /\ last_progress = <<0, 1>>
    /\ preview_image = None
    /\ presets = <<>>
    /\ sim_assignments = None
    /\ gui_pc = "frame"

\* the desktop build
InitGui == InitConsumer("native")

\* ObamifyApp::get_latest_msg: try_recv() takes the oldest message of the
\* channel; in the browser build inbox.pop() takes the last element of the Vec
\* to which the onmessage closure of ensure_worker pushes
get_latest_msg ==
    IF target_arch = "wasm32"
    THEN [msg |-> chan[Len(chan)], rest |-> SubSeq(chan, 1, Len(chan) - 1)]
    ELSE [msg |-> Head(chan), rest |-> Tail(chan)]

\* gui.rs 743-792 with get_latest_msg (app.rs 705-721): a frame with the modal
\* open runs "while let Some(msg) = self.get_latest_msg()"; try_recv returned a
\* message and the modal handles it.  The loop goes on after Cancelled although
\* the modal is hidden (gui_pc = "modal_loop"), and ends after Done (break).
GuiModalRecv ==
    /\ show_progress_modal \/ gui_pc = "modal_loop"
    /\ chan # <<>>
    /\ chan' = get_latest_msg.rest
    /\ LET msg == get_latest_msg.msg
       IN  CASE msg.typ = "done" ->
                    /\ preview_image' = None
                    /\ presets' = Append(presets, msg.assignments)
                    /\ show_progress_modal' = FALSE
                    /\ gui_pc' = "frame"
                    /\ UNCHANGED <<last_progress, sim_assignments>>
             [] msg.typ = "progress" ->
                    /\ last_progress' = <<msg.num, msg.den>>
                    /\ UNCHANGED <<preview_image, presets, show_progress_modal,
                                   sim_assignments, gui_pc>>
             [] msg.typ = "error" ->
                    UNCHANGED guiVars
             [] msg.typ = "update_preview" ->
                    /\ preview_image' = msg.data
                    /\ UNCHANGED <<last_progress, presets, show_progress_modal,
                                   sim_assignments, gui_pc>>
             [] msg.typ = "cancelled" ->
                    /\ preview_image' = None
                    /\ show_progress_modal' = FALSE
                    /\ gui_pc' = "modal_loop"
                    /\ UNCHANGED <<last_progress, presets, sim_assignments>>
             [] msg.typ = "update_assignments" ->
                    /\ sim_assignments' = msg.assignments
                    /\ UNCHANGED <<last_progress, preview_image, presets,
                                   show_progress_modal, gui_pc>>
    /\ UNCHANGED <<drawVars, runVars, inputVars, rx_dropped, fnVars, optVars, genVars, cancel>>

\* get_latest_msg returned None (TryRecvError::Empty): the loop that went on
\* after Cancelled ends
GuiModalEmpty ==
    /\ gui_pc = "modal_loop"
    /\ chan = <<>>
    /\ gui_pc' = "frame"
    /\ UNCHANGED <<show_progress_modal, last_progress, preview_image, presets,
                   sim_assignments>>
    /\ UNCHANGED <<drawVars, runVars, inputVars, rx_dropped, fnVars, optVars, genVars, chan, cancel>>

\* gui.rs 803-818 (native): the cancel button of the modal is clicked
GuiCancelClicked ==
    /\ gui_pc = "frame"
    /\ show_progress_modal
    /\ cancel' = TRUE
    /\ last_progress' = <<0, 1>>
    /\ UNCHANGED <<show_progress_modal, preview_image, presets, sim_assignments, gui_pc>>
    /\ UNCHANGED <<drawVars, runVars, inputVars, rx_dropped, fnVars, optVars, genVars, chan>>

(***************************************************************************)
(* The threads of drawing mode, and the state in which none runs.          *)
(***************************************************************************)
Sessions == 1 .. MaxSessions

\* a thread that is not spawned yet; held is the set of read guards it holds
Unborn ==
    [pc |-> "unborn", frame_count |-> 0, pixels |-> <<>>, colors |-> <<>>,
     pixel_data |-> <<>>, swaps_made |-> 0, swap_i |-> 0, held |-> {}]

\* std::thread::spawn in init_canvas: the closure captured frame_count
Spawned(fc) == [Unborn EXCEPT !.pc = "init", !.frame_count = fc]

IdleRuns ==
    /\ generator = "none"
    /\ runs = <<>>

\* no function is applied on its own
IdleCalls ==
    /\ call = <<>>
    /\ result = <<>>

IdleDrawing ==
    /\ mode = "Transform"
    /\ current_drawing_id = 0
    /\ frame_count = 0
    /\ stroke_count = 0
    /\ colors = <<>>
    /\ pixeldata = <<>>
    /\ solvers = [k \in Sessions |-> Unborn]

(***************************************************************************)
(* A solve with the exact matcher: "start!" was clicked with               *)
(* Algorithm::Optimal, the modal is shown and the solver thread runs.      *)
(***************************************************************************)
InitOpt ==
    /\ IdleCalls
    /\ InitInputs
    /\ InitOptimal
    /\ IdleGenetic
    /\ IdleDrawing
    /\ IdleRuns
    /\ InitGui
    /\ show_progress_modal = TRUE

NextOpt ==
    \/ process_optimal
    \/ GuiModalRecv
    \/ GuiModalEmpty
    \/ GuiCancelClicked

SpecOpt == InitOpt /\ [][NextOpt]_vars

\* The browser build: process runs in the worker, without the cancel flag
\* (mod.rs 172 and 297), and its messages are pushed to the inbox.
InitWorker ==
    /\ IdleCalls
    /\ InitInputs
    /\ InitOptimal
    /\ IdleGenetic
    /\ IdleDrawing
    /\ IdleRuns
    /\ InitConsumer("wasm32")
    /\ show_progress_modal = TRUE

NextWorker ==
    \/ OptStartRoot
    \/ OptSearchStep
    \/ OptAugment
    \/ OptCheckCancel
    \/ OptSendProgress
    \/ OptSendPreview
    \/ OptSendDone
    \/ GuiModalRecv

SpecWorker == InitWorker /\ [][NextWorker]_vars

(***************************************************************************)
(* The cost model on its own: heuristic applied to arguments, and at       *)
(* applied to a row and a column of the inputs of a solve.                 *)
(***************************************************************************)
\* (u16, u16) positions
Positions == {<<0, 0>>, <<1, 0>>, <<0, 2>>, <<3, 1>>}

\* i64 weights: those of load_weights are the red channel of a pixel, the
\* proximity is a setting; negative values are arguments as well
ColorWeights == {0 - 1, 0, 1, UniformWeight}
SpatialWeights == {0 - 2, 0, 10}

HeuristicCalls ==
    [fn : {"heuristic"}, apos : Positions, bpos : Positions,
     a : {black, dark, red, white}, b : {black, dark, red, white},
     color_weight : ColorWeights, spatial_weight : SpatialWeights]

AtCalls == [fn : {"at"}, row : 0 .. nx - 1, col : 0 .. ny - 1]

InitCost ==
    /\ \/ ScenarioInputs /\ call \in HeuristicCalls
       \/ InitInputs /\ call \in AtCalls
    /\ target_dimensions = <<sidelen, sidelen>>
    /\ weights_dimensions = <<sidelen, sidelen>>
    /\ result = <<>>
    /\ IdleOptimal
    /\ IdleGenetic
    /\ IdleDrawing
    /\ IdleRuns
    /\ InitGui
    /\ show_progress_modal = FALSE

CallHeuristic ==
    /\ result = <<>>
    /\ call.fn = "heuristic"
    /\ result' = <<heuristic(call.apos, call.bpos, call.a, call.b, call.color_weight,
                             call.spatial_weight)>>
    /\ UNCHANGED <<call, inputVars, optVars, genVars, chan, cancel, guiVars, drawVars,
                   runVars, rx_dropped>>

CallAt ==
    /\ result = <<>>
    /\ call.fn = "at"
    /\ result' = <<at(call.row, call.col)>>
    /\ UNCHANGED <<call, inputVars, optVars, genVars, chan, cancel, guiVars, drawVars,
                   runVars, rx_dropped>>

NextCost ==
    \/ CallHeuristic
    \/ CallAt

SpecCost == InitCost /\ [][NextCost]_vars

(***************************************************************************)
(* A solve from image files whose dimensions the solver has to check: the  *)
(* thread starts at the preparation of the inputs.                         *)
(***************************************************************************)
Dimensions == (1 .. MaxSidelen) \X (1 .. MaxSidelen)

\* the larger of the widths and heights of the two image files
LargestSide ==
    CHOOSE m \in 1 .. MaxSidelen :
        /\ m \in {target_dimensions[1], target_dimensions[2],
                  weights_dimensions[1], weights_dimensions[2]}
        /\ \A d \in {target_dimensions[1], target_dimensions[2],
                      weights_dimensions[1], weights_dimensions[2]} : d <= m

\* The files of the scenario at the given dimensions.  sidelen is
\* target.width(); of files that fail the checks no pixel is read.
InitFileInputs ==
    /\ target_dimensions \in Dimensions
    /\ weights_dimensions \in Dimensions
    /\ sidelen = target_dimensions[1]
    /\ source_pixels = Resample(ScenarioSource, LargestSide)
    /\ target_pixels = Resample(ScenarioTarget, LargestSide)
    /\ weights = [c \in Cells(LargestSide) |-> UniformWeight]
    /\ proximity_importance \in ProximityValues

\* the solver thread was spawned and has sent nothing yet
AtGetImages ==
    /\ opc = "get_images"
    /\ root = 0
    /\ xy = <<>>
    /\ yx = <<>>
    /\ lx = <<>>
    /\ ly = <<>>
    /\ s = {}
    /\ alternating = <<>>
    /\ slack = <<>>
    /\ slackx = <<>>
    /\ y = None

InitPrep ==
    /\ IdleCalls
    /\ InitFileInputs
    /\ AtGetImages
    /\ IdleGenetic
    /\ IdleDrawing
    /\ IdleRuns
    /\ InitGui
    /\ show_progress_modal = TRUE

NextPrep ==
    \/ OptGetImages
    \/ OptSendError
    \/ NextOpt

SpecPrep == InitPrep /\ [][NextPrep]_vars

(***************************************************************************)
(* A solve with the local search: "start!" with Algorithm::Genetic.        *)
(***************************************************************************)
InitGen ==
    /\ IdleCalls
    /\ InitInputs \/ InitLargeInputs
    /\ IdleOptimal
    /\ InitGenetic
    /\ IdleDrawing
    /\ IdleRuns
    /\ InitGui
    /\ show_progress_modal = TRUE

NextGen ==
    \/ process_genetic
    \/ GuiModalRecv
    \/ GuiModalEmpty
    \/ GuiCancelClicked

SpecGen == InitGen /\ [][NextGen]_vars

\* The solver thread keeps running while it can take a step, and the UI
\* thread runs a frame after another: the modal receives while a message waits.
SpecGenFair ==
    /\ SpecGen
    /\ WF_vars(process_genetic)
    /\ WF_vars(GuiModalRecv)

(***************************************************************************)
(* Drawing mode: the canvas shared by the UI thread and the solvers, and   *)
(* the cost model of drawing_process_genetic.                              *)
(***************************************************************************)
\* An i64 cost of drawing mode is kept as the pair (rewards, cost) that stands
\* for rewards * (-10000000000) + cost.  The sign of such a value is read off
\* the pair as long as |cost| < 10000000000, which holds on the model's canvas.
STROKE_REWARD == [rewards |-> 1, cost |-> 0]

NoReward == [rewards |-> 0, cost |-> 0]

I64Add(a, b) == [rewards |-> a.rewards + b.rewards, cost |-> a.cost + b.cost]

I64Sub(a, b) == [rewards |-> a.rewards - b.rewards, cost |-> a.cost - b.cost]

I64Positive(v) == v.rewards < 0 \/ (v.rewards = 0 /\ v.cost > 0)

\* A channel of a SeedColor is an f32 in [0, 1]; it is kept as a multiple of
\* 1 / ColorUnit, which is exact for p / 255 and for MaxStrokes blends with
\* alpha = 1/2.
ColorUnit == 255 * 2 ^ MaxStrokes

\* init_colors: p as f32 / 255.0
SeedColorOf(rgb) == [ch \in 1 .. 3 |-> rgb[ch] * (ColorUnit \div 255)]

\* (rgba[ch] * 256.0) as u8: the cast truncates and saturates
AsU8(v) == IF (v * 256) \div ColorUnit > 255 THEN 255 ELSE (v * 256) \div ColorUnit

CanvasCells == 0 .. DRAWING_CANVAS_SIZE * DRAWING_CANVAS_SIZE - 1

\* the canvas image blank.png: one colour everywhere
BlankImage == [c \in CanvasCells |-> white]

\* morph_sim::init_canvas / init_colors on the blank image
BlankColors == [c \in CanvasCells |-> SeedColorOf(BlankImage[c])]

\* the colours of presets[0], which change_sim installs: a preset of one
\* colour
PresetColors ==
    {[c \in CanvasCells |-> SeedColorOf(col)] : col \in {white}}

\* PixelData::init_canvas
PixelData_init_canvas(fc) == [c \in CanvasCells |-> [stroke_id |-> 0, last_edited |-> fc]]

\* the seeds the brush of the model can reach
PaintableSeeds == {DRAWING_CANVAS_SIZE + 1}

\* gui.drawing_color: black with DRAWING_ALPHA
drawing_color == <<0, 0, 0>>

\* blend in draw, with alpha = DRAWING_ALPHA = 0.5 inside the brush
blend(c1, c2) == (c1 + c2) \div 2

\* DrawingPixel::calc_drawing_heuristic
calc_drawing_heuristic(p, target_pos, target_col, weight, cols) ==
    LET rgba == cols[p.src_y * DRAWING_CANVAS_SIZE + p.src_x]
    IN  heuristic(<<p.src_x, p.src_y>>, target_pos,
                  <<AsU8(rgba[1]), AsU8(rgba[2]), AsU8(rgba[3])>>,
                  target_col, weight, proximity_importance)

\* the PixelData of the seed that stands at cell pos
DataAt(pixel_data, px, pos) ==
    pixel_data[px[pos].src_x + px[pos].src_y * DRAWING_CANVAS_SIZE]

\* a faulty variant of stroke_reward: the stroke of the pixel at newpos is
\* looked up in place of the one at oldpos
stroke_reward_OfNewpos(newpos, oldpos, pixel_data, px) ==
    LET x == AsU16(newpos % DRAWING_CANVAS_SIZE)
        yy == AsU16(newpos \div DRAWING_CANVAS_SIZE)
        stroke_id == DataAt(pixel_data, px, newpos).stroke_id
        near == {n \in {<<x, yy - 1>>, <<x - 1, yy>>, <<x + 1, yy>>, <<x, yy + 1>>} :
                    /\ n[1] >= 0 /\ n[1] < DRAWING_CANVAS_SIZE
                    /\ n[2] >= 0 /\ n[2] < DRAWING_CANVAS_SIZE}
    IN  IF \E n \in near :
              DataAt(pixel_data, px, n[2] * DRAWING_CANVAS_SIZE + n[1]).stroke_id = stroke_id
        THEN STROKE_REWARD ELSE NoReward

\* stroke_reward: the reward if a 4-neighbour of newpos holds a seed of the
\* stroke of the seed at oldpos.  (_age = frame_count - data.last_edited is
\* not used; the subtraction wraps in a release build, which is modelled.)
stroke_reward(newpos, oldpos, pixel_data, px) ==
    LET x == AsU16(newpos % DRAWING_CANVAS_SIZE)
        yy == AsU16(newpos \div DRAWING_CANVAS_SIZE)
        stroke_id == DataAt(pixel_data, px, oldpos).stroke_id
        near == {n \in {<<x, yy - 1>>, <<x - 1, yy>>, <<x + 1, yy>>, <<x, yy + 1>>} :
                    /\ n[1] >= 0 /\ n[1] < DRAWING_CANVAS_SIZE
                    /\ n[2] >= 0 /\ n[2] < DRAWING_CANVAS_SIZE}
    IN  IF \E n \in near :
              DataAt(pixel_data, px, n[2] * DRAWING_CANVAS_SIZE + n[1]).stroke_id = stroke_id
        THEN STROKE_REWARD ELSE NoReward

\* the product of two f32 in [0, 1], both in units of 1 / 1000000, rounded
\* down: a * b / 1000000 with a split in thousands, which stays below 2^31
MulFixed(a, b) ==
    LET t == (a \div 1000) * b
    IN  t \div 1000 + ((t % 1000) * 1000 + (a % 1000) * b) \div 1000000

RECURSIVE Pow99(_)
\* (0.99f32).powi(n) in units of 1 / 1000000: powi multiplies powers of the
\* base
Pow99(n) ==
    IF n = 0 THEN 1000000
    ELSE IF n = 1 THEN 990000
    ELSE MulFixed(Pow99(n \div 2), Pow99(n - n \div 2))

\* a faulty variant of max_dist_at: the radius does not decay
max_dist_at_NoDecay(canvas_size, age) == canvas_size \div 4

\* max_dist on a canvas of side canvas_size:
\* (((canvas_size / 4) as f32) * (0.99f32).powi(age as i32 / 30)).round() as u32
\* for the ages below 2^31, which "as i32" leaves as they are
max_dist_at(canvas_size, age) ==
    (2 * (canvas_size \div 4) * Pow99(age \div 30) + 1000000) \div 2000000

\* max_dist(age) of drawing_process_genetic.  With DRAWING_CANVAS_SIZE / 4 = 1
\* this is 1 while 0.99^(age / 30) >= 0.5, that is age / 30 <= 68, and 0
\* afterwards.
max_dist_of(age) == max_dist_at(DRAWING_CANVAS_SIZE, age)

\* u32::saturating_sub
saturating_sub(a, b) == IF a < b THEN 0 ELSE a - b

\* lines 144-167: pixel i starts at cell i with its cost there plus the reward
InitialDrawingPixels(cols) ==
    [i \in 0 .. sidelen * sidelen - 1 |->
        LET x == AsU16(i % sidelen)
            yy == AsU16(i \div sidelen)
            p == [src_x |-> x, src_y |-> yy, h |-> NoReward]
        IN  [p EXCEPT !.h = I64Add([rewards |-> 0,
                                     cost |-> calc_drawing_heuristic(p, <<x, yy>>,
                                                  target_pixels[i], weights[i], cols)],
                                    STROKE_REWARD)]]

\* lines 195-199: the cells a proposal can pair with apos
DrawingPartners(sv, apos) ==
    LET ax == AsU16(apos) % AsU16(sidelen)
        ay == AsU16(apos) \div AsU16(sidelen)
        max_dist_a == max_dist_of(saturating_sub(sv.frame_count,
                                                 sv.pixel_data[apos].last_edited))
        bxs == {Clamp(ax + d, 0, sidelen - 1) : d \in (0 - max_dist_a) .. max_dist_a}
        bys == {Clamp(ay + d, 0, sidelen - 1) : d \in (0 - max_dist_a) .. max_dist_a}
    IN  {by * sidelen + bx : bx \in bxs, by \in bys}

\* lines 188-235: the solver after the proposal that pairs apos with bpos
DrawingProposal(sv, apos, bpos) ==
    LET ax == AsU16(apos) % AsU16(sidelen)
        ay == AsU16(apos) \div AsU16(sidelen)
        bx == AsU16(bpos) % AsU16(sidelen)
        by == AsU16(bpos) \div AsU16(sidelen)
        max_dist_b == max_dist_of(saturating_sub(sv.frame_count,
                                                 sv.pixel_data[bpos].last_edited))
        far == \/ (IF bx - ax < 0 THEN ax - bx ELSE bx - ax) > max_dist_b
               \/ (IF by - ay < 0 THEN ay - by ELSE by - ay) > max_dist_b
        a_on_b_h == I64Add([rewards |-> 0,
                            cost |-> calc_drawing_heuristic(sv.pixels[apos], <<bx, by>>,
                                         target_pixels[bpos], weights[bpos], sv.colors)],
                           stroke_reward(bpos, apos, sv.pixel_data, sv.pixels))
        b_on_a_h == I64Add([rewards |-> 0,
                            cost |-> calc_drawing_heuristic(sv.pixels[bpos], <<ax, ay>>,
                                         target_pixels[apos], weights[apos], sv.colors)],
                           stroke_reward(apos, bpos, sv.pixel_data, sv.pixels))
        improvement_a == I64Sub(sv.pixels[apos].h, b_on_a_h)
        improvement_b == I64Sub(sv.pixels[bpos].h, a_on_b_h)
        next == [sv EXCEPT !.swap_i = sv.swap_i + 1]
    IN  IF far THEN next
        ELSE IF I64Positive(I64Add(improvement_a, improvement_b))
        THEN [next EXCEPT !.pixels = [i \in DOMAIN sv.pixels |->
                                        IF i = bpos THEN [sv.pixels[apos] EXCEPT !.h = a_on_b_h]
                                        ELSE IF i = apos THEN [sv.pixels[bpos] EXCEPT !.h = b_on_a_h]
                                        ELSE sv.pixels[i]],
                           !.swaps_made = sv.swaps_made + 1]
        ELSE next

\* the solvers one proposal can lead to, over the draws of the generator
DrawingOutcomes(sv) ==
    UNION {{DrawingProposal(sv, apos, bpos) : bpos \in DrawingPartners(sv, apos)} :
              apos \in 0 .. sidelen * sidelen - 1}

\* lines 251-254: the assignment read off the pixels
DrawingAssignmentsOf(px) == [i \in DOMAIN px |-> px[i].src_y * sidelen + px[i].src_x]

(***************************************************************************)
(* drawing_process_genetic: the thread that init_canvas spawns with my_id  *)
(* = k.                                                                    *)
(***************************************************************************)
restVars == <<inputVars, rx_dropped, fnVars, optVars, genVars, runVars>>
canvasVars == <<mode, current_drawing_id, frame_count, stroke_count, colors, pixeldata>>

\* lines 144-167: the pixels are built from a clone of the live colours
DrawingInit(k) ==
    /\ solvers[k].pc = "init"
    /\ solvers' = [solvers EXCEPT ![k].pixels = InitialDrawingPixels(colors),
                                  ![k].pc = "read_colors"]
    /\ UNCHANGED <<restVars, canvasVars, chan, cancel, guiVars>>

\* lines 177-180: colors.read().unwrap().clone()
DrawingReadColors(k) ==
    /\ solvers[k].pc = "read_colors"
    /\ solvers' = [solvers EXCEPT ![k].colors = colors, ![k].pc = "read_pixel_data"]
    /\ UNCHANGED <<restVars, canvasVars, chan, cancel, guiVars>>

\* lines 181-185: pixel_data.read().unwrap().clone(); swaps_made = 0
DrawingReadPixelData(k) ==
    /\ solvers[k].pc = "read_pixel_data"
    /\ solvers' = [solvers EXCEPT ![k].pixel_data = pixeldata, ![k].swaps_made = 0,
                                  ![k].swap_i = 0, ![k].pc = "swap"]
    /\ UNCHANGED <<restVars, canvasVars, chan, cancel, guiVars>>

\* a faulty variant of AfterProposal: the assignments are sent after every
\* generation
AfterProposal_AlwaysSends(sv) ==
    IF sv.swap_i < swaps_per_generation THEN sv
    ELSE [sv EXCEPT !.pc = "send_assignments", !.colors = <<>>, !.pixel_data = <<>>]

\* the position after a proposal: the for loop goes on, or lines 250 and 257
AfterProposal(sv) ==
    IF sv.swap_i < swaps_per_generation THEN sv
    ELSE [sv EXCEPT !.pc = IF sv.swaps_made > 0 THEN "send_assignments" ELSE "check_id",
                    !.colors = <<>>, !.pixel_data = <<>>]

\* lines 187-236: one proposal of the generation
DrawingPropose(k) ==
    /\ solvers[k].pc = "swap"
    /\ \E o \in DrawingOutcomes(solvers[k]) :
          solvers' = [solvers EXCEPT ![k] = AfterProposal(o)]
    /\ UNCHANGED <<restVars, canvasVars, chan, cancel, guiVars>>

\* lines 250-256: tx.send(UpdateAssignments(assignments))?
\* With the receiver dropped send returns Err, "?" returns it from the solver
\* and the closure of the thread (app.rs 1360-1365) sends it on as an Error,
\* which fails as well.
DrawingSendAssignments(k) ==
    /\ solvers[k].pc = "send_assignments"
    /\ IF rx_dropped
       THEN /\ solvers' = [solvers EXCEPT ![k] = [Unborn EXCEPT !.pc = "returned_err"]]
            /\ UNCHANGED chan
       ELSE /\ Send(MsgUpdateAssignments(DrawingAssignmentsOf(solvers[k].pixels)))
            /\ solvers' = [solvers EXCEPT ![k].pc = "check_id"]
    /\ UNCHANGED <<restVars, canvasVars, cancel, guiVars>>

\* line 257: my_id != current_id.load(Relaxed)
DrawingCheckId(k) ==
    /\ solvers[k].pc = "check_id"
    /\ solvers' = [solvers EXCEPT ![k].pc = IF k # current_drawing_id
                                            THEN "send_cancelled" ELSE "read_colors"]
    /\ UNCHANGED <<restVars, canvasVars, chan, cancel, guiVars>>

\* lines 258-259: tx.send(Cancelled).unwrap(); return Ok(())
\* With the receiver dropped unwrap() panics on the Err of send.
DrawingSendCancelled(k) ==
    /\ solvers[k].pc = "send_cancelled"
    /\ IF rx_dropped
       THEN /\ solvers' = [solvers EXCEPT ![k] = [Unborn EXCEPT !.pc = "panicked"]]
            /\ UNCHANGED chan
       ELSE /\ Send(MsgCancelled)
            /\ solvers' = [solvers EXCEPT ![k] = [Unborn EXCEPT !.pc = "returned"]]
    /\ UNCHANGED <<restVars, canvasVars, cancel, guiVars>>

drawing_process_genetic(k) ==
    \/ DrawingInit(k)
    \/ DrawingReadColors(k)
    \/ DrawingReadPixelData(k)
    \/ DrawingPropose(k)
    \/ DrawingSendAssignments(k)
    \/ DrawingCheckId(k)
    \/ DrawingSendCancelled(k)

(***************************************************************************)
(* The UI thread in drawing mode.                                          *)
(***************************************************************************)
\* ObamifyApp::init_canvas: canvas_sim installs the blank colours, fresh
\* PixelData and the identity assignment; the counter is raised and a solver
\* is spawned with the new id
init_canvas ==
    /\ colors' = BlankColors
    /\ pixeldata' = PixelData_init_canvas(frame_count)
    /\ sim_assignments' = [i \in CanvasCells |-> i]
    /\ current_drawing_id' = current_drawing_id + 1
    /\ solvers' = [solvers EXCEPT ![current_drawing_id + 1] = Spawned(frame_count)]

\* gui.rs 471-480: the "drawing mode" button.  A run of the model solves or
\* draws: the button is used in the runs in which no solve was started.
GuiEnterDraw ==
    /\ gui_pc = "frame"
    /\ mode = "Transform"
    /\ opc = "idle" /\ gpc = "idle"
    /\ current_drawing_id < MaxSessions
    /\ mode' = "Draw"
    /\ init_canvas
    /\ UNCHANGED <<frame_count, stroke_count>>
    /\ UNCHANGED <<show_progress_modal, last_progress, preview_image, presets, gui_pc>>
    /\ UNCHANGED <<restVars, chan, cancel>>

\* gui.rs 260-262: the "reset" button
GuiReset ==
    /\ gui_pc = "frame"
    /\ mode = "Draw"
    /\ current_drawing_id < MaxSessions
    /\ init_canvas
    /\ UNCHANGED <<mode, frame_count, stroke_count>>
    /\ UNCHANGED <<show_progress_modal, last_progress, preview_image, presets, gui_pc>>
    /\ UNCHANGED <<restVars, chan, cancel>>

\* gui.rs 264-288: one turn of "while let Some(msg) = self.get_latest_msg()"
GuiDrawRecv ==
    /\ gui_pc = "frame"
    /\ mode = "Draw"
    /\ chan # <<>>
    /\ chan' = Tail(chan)
    /\ LET msg == Head(chan)
       IN  CASE msg.typ = "update_preview" ->
                    /\ preview_image' = msg.data
                    /\ UNCHANGED <<cancel, sim_assignments, gui_pc>>
             [] msg.typ = "cancelled" ->
                    /\ cancel' = FALSE
                    /\ preview_image' = None
                    /\ UNCHANGED <<sim_assignments, gui_pc>>
             [] msg.typ = "update_assignments" ->
                    /\ sim_assignments' = msg.assignments
                    /\ UNCHANGED <<cancel, preview_image, gui_pc>>
             [] OTHER ->
                    \* Progress, Done, Error: todo!()
                    /\ gui_pc' = "panicked"
                    /\ UNCHANGED <<cancel, preview_image, sim_assignments>>
    /\ UNCHANGED <<show_progress_modal, last_progress, presets>>
    /\ UNCHANGED <<restVars, drawVars>>

\* gui.rs 290-297: the "transform mode" button; change_sim installs the
\* colours of presets[0] and fresh PixelData.  current_drawing_id is left alone.
GuiLeaveDraw ==
    /\ gui_pc = "frame"
    /\ mode = "Draw"
    /\ mode' = "Transform"
    /\ colors' \in PresetColors
    /\ pixeldata' = PixelData_init_canvas(frame_count)
    /\ sim_assignments' = [i \in CanvasCells |-> i]
    /\ UNCHANGED <<current_drawing_id, frame_count, stroke_count, solvers>>
    /\ UNCHANGED <<show_progress_modal, last_progress, preview_image, presets, gui_pc>>
    /\ UNCHANGED <<restVars, chan, cancel>>

\* ObamifyApp::draw (app.rs 1219-1281) when a stroke begins: the seeds under
\* the brush are blended with the drawing colour and stamped with the stroke
GuiDraw ==
    /\ gui_pc = "frame"
    /\ mode = "Draw"
    /\ stroke_count < MaxStrokes
    /\ stroke_count' = stroke_count + 1
    /\ \E i \in PaintableSeeds :
          /\ colors' = [colors EXCEPT ![i] = [ch \in 1 .. 3 |->
                                                 blend(colors[i][ch], drawing_color[ch]
                                                                      * ColorUnit)]]
          /\ pixeldata' = [pixeldata EXCEPT ![i] = [stroke_id |-> stroke_count + 1,
                                                     last_edited |-> frame_count]]
    /\ UNCHANGED <<mode, current_drawing_id, frame_count, solvers>>
    /\ UNCHANGED <<restVars, chan, cancel, guiVars>>

\* gui.rs 1071: self.frame_count += 1 at the end of a frame
GuiFrameEnd ==
    /\ gui_pc = "frame"
    /\ frame_count < MaxFrames
    /\ frame_count' = frame_count + 1
    /\ UNCHANGED <<mode, current_drawing_id, stroke_count, colors, pixeldata, solvers>>
    /\ UNCHANGED <<restVars, chan, cancel, guiVars>>

(***************************************************************************)
(* The program in drawing mode.                                            *)
(***************************************************************************)
\* init_canvas: the blank source, GenerationSettings::default and a target
\* with one cell that is lighter than the rest, under the brush
InitCanvasInputs ==
    /\ sidelen = DRAWING_CANVAS_SIZE
    /\ target_dimensions = <<sidelen, sidelen>>
    /\ weights_dimensions = <<sidelen, sidelen>>
    /\ source_pixels = BlankImage
    /\ target_pixels \in SparseImages(DRAWING_CANVAS_SIZE, PaintableSeeds)
                          \ {[c \in CanvasCells |-> black]}
    /\ weights = [c \in CanvasCells |-> UniformWeight]
    /\ proximity_importance = 10

InitDraw ==
    /\ IdleCalls
    /\ InitCanvasInputs
    /\ IdleOptimal
    /\ IdleGenetic
    /\ IdleRuns
    /\ InitGui
    /\ show_progress_modal = FALSE
    /\ mode = "Transform"
    /\ current_drawing_id = 0
    /\ frame_count = 0
    /\ stroke_count = 0
    /\ colors \in PresetColors
    /\ pixeldata = PixelData_init_canvas(0)
    /\ solvers = [k \in Sessions |-> Unborn]

NextDraw ==
    \/ \E k \in Sessions : drawing_process_genetic(k)
    \/ GuiEnterDraw
    \/ GuiReset
    \/ GuiDrawRecv
    \/ GuiLeaveDraw
    \/ GuiDraw

\* Drawing within one frame count: the swap radius max_dist depends on the age
\* frame_count - last_edited only through age / 30, which the frames of a
\* short run do not change.
SpecDraw == InitDraw /\ [][NextDraw]_vars

\* The window is closed: the application is dropped and with it progress_rx
\* and the messages it buffers; the solver threads run on until the process
\* ends.
GuiExit ==
    /\ gui_pc = "frame"
    /\ ~rx_dropped
    /\ rx_dropped' = TRUE
    /\ chan' = <<>>
    /\ gui_pc' = "exited"
    /\ UNCHANGED <<show_progress_modal, last_progress, preview_image, presets,
                   sim_assignments>>
    /\ UNCHANGED <<inputVars, optVars, genVars, runVars, fnVars, drawVars, cancel>>

NextDrawExit ==
    \/ NextDraw
    \/ GuiExit

\* Drawing until the window is closed.
SpecDrawExit == InitDraw /\ [][NextDrawExit]_vars

\* Drawing with the frames counted.
NextDrawFrames ==
    \/ NextDraw
    \/ GuiFrameEnd

SpecDrawFrames == InitDraw /\ [][NextDrawFrames]_vars

\* gui.rs 1071, SettleFrames times in a row: the frames of a pause in which
\* nothing is drawn; the solver threads take their next steps after it
GuiFramesPass ==
    /\ gui_pc = "frame"
    /\ frame_count < MaxFrames
    /\ frame_count' = frame_count + SettleFrames
    /\ UNCHANGED <<mode, current_drawing_id, stroke_count, colors, pixeldata, solvers>>
    /\ UNCHANGED <<restVars, chan, cancel, guiVars>>

NextDrawSettle ==
    \/ NextDraw
    \/ GuiFramesPass

\* Drawing with a pause.
SpecDrawSettle == InitDraw /\ [][NextDrawSettle]_vars

(***************************************************************************)
(* Drawing mode entered during a solve.  The progress window of            *)
(* ObamifyApp::update (gui.rs 745-751) is an egui Window, not a Modal: the *)
(* buttons of the top panel stay usable while it is shown.                 *)
(***************************************************************************)
\* gui.rs 471-480: the "drawing mode" button while process_optimal runs
GuiEnterDrawSolving ==
    /\ gui_pc = "frame"
    /\ mode = "Transform"
    /\ opc # "idle"
    /\ current_drawing_id < MaxSessions
    /\ mode' = "Draw"
    /\ init_canvas
    /\ UNCHANGED <<frame_count, stroke_count>>
    /\ UNCHANGED <<show_progress_modal, last_progress, preview_image, presets, gui_pc>>
    /\ UNCHANGED <<restVars, chan, cancel>>

NextSolveDraw ==
    \/ NextOpt
    \/ GuiEnterDrawSolving
    \/ GuiDrawRecv

\* An exact solve during which drawing mode can be entered; the thread of
\* the drawing solver takes no step before the solve is over.
SpecSolveDraw == InitOpt /\ [][NextSolveDraw]_vars

(***************************************************************************)
(* The two RwLocks of drawing mode, colors and pixeldata, step by step:    *)
(* the solver's read().unwrap() and clone() are steps of their own, and so *)
(* are the write().unwrap() calls of ObamifyApp::draw.                     *)
(***************************************************************************)
\* the solver threads that hold the read guard of a lock
Readers(lock) == {k \in Sessions : lock \in solvers[k].held}

\* app.rs 1260-1274: the write guard "colors" of draw lives to the end of the
\* block; every other write guard of the UI is a temporary of one statement
UiWrites(lock) == lock = "colors" /\ gui_pc = "draw_colors"

\* a faulty variant of Released: the guard outlives the block
Released_Kept(held, lock) == held

\* drawing_process.rs 177-180 and 181-184: r is dropped at the end of the
\* block of the clone
Released(held, lock) == held \ {lock}

\* drawing_process.rs 178: colors.read().unwrap()
LockColors(k) ==
    /\ solvers[k].pc = "read_colors"
    /\ ~UiWrites("colors")
    /\ solvers' = [solvers EXCEPT ![k].held = @ \cup {"colors"}, ![k].pc = "clone_colors"]
    /\ UNCHANGED <<restVars, canvasVars, chan, cancel, guiVars>>

\* drawing_process.rs 179-180: r.clone() and the end of the block
CloneColors(k) ==
    /\ solvers[k].pc = "clone_colors"
    /\ solvers' = [solvers EXCEPT ![k].colors = colors,
                                  ![k].held = Released(@, "colors"),
                                  ![k].pc = "read_pixel_data"]
    /\ UNCHANGED <<restVars, canvasVars, chan, cancel, guiVars>>

\* drawing_process.rs 182: pixel_data.read().unwrap()
LockPixelData(k) ==
    /\ solvers[k].pc = "read_pixel_data"
    /\ ~UiWrites("pixel_data")
    /\ solvers' = [solvers EXCEPT ![k].held = @ \cup {"pixel_data"},
                                  ![k].pc = "clone_pixel_data"]
    /\ UNCHANGED <<restVars, canvasVars, chan, cancel, guiVars>>

\* drawing_process.rs 183-185: r.clone(), the end of the block, swaps_made = 0
ClonePixelData(k) ==
    /\ solvers[k].pc = "clone_pixel_data"
    /\ solvers' = [solvers EXCEPT ![k].pixel_data = pixeldata,
                                  ![k].held = Released(@, "pixel_data"),
                                  ![k].swaps_made = 0, ![k].swap_i = 0, ![k].pc = "swap"]
    /\ UNCHANGED <<restVars, canvasVars, chan, cancel, guiVars>>

\* drawing_process_genetic with the locks step by step; line 145 reads the
\* colours under a read guard that is a temporary of the statement
drawing_process_locked(k) ==
    \/ ~UiWrites("colors") /\ DrawingInit(k)
    \/ LockColors(k)
    \/ CloneColors(k)
    \/ LockPixelData(k)
    \/ ClonePixelData(k)
    \/ DrawingPropose(k)
    \/ DrawingSendAssignments(k)
    \/ DrawingCheckId(k)
    \/ DrawingSendCancelled(k)

\* app.rs 1229-1233 and 1255-1259: a stroke begins and a seed is under the
\* brush; the UI thread is about to call self.colors.write()
GuiDrawBegin ==
    /\ gui_pc = "frame"
    /\ mode = "Draw"
    /\ stroke_count < MaxStrokes
    /\ stroke_count' = stroke_count + 1
    /\ gui_pc' = "draw_wait_colors"
    /\ UNCHANGED <<mode, current_drawing_id, frame_count, colors, pixeldata, solvers>>
    /\ UNCHANGED <<show_progress_modal, last_progress, preview_image, presets,
                   sim_assignments>>
    /\ UNCHANGED <<restVars, chan, cancel>>

\* app.rs 1260-1263: self.colors.write().unwrap() and the blend
GuiDrawLockColors ==
    /\ gui_pc = "draw_wait_colors"
    /\ Readers("colors") = {}
    /\ gui_pc' = "draw_colors"
    /\ \E i \in PaintableSeeds :
          colors' = [colors EXCEPT ![i] = [ch \in 1 .. 3 |->
                                              blend(colors[i][ch], drawing_color[ch]
                                                                   * ColorUnit)]]
    /\ UNCHANGED <<mode, current_drawing_id, frame_count, stroke_count, pixeldata, solvers>>
    /\ UNCHANGED <<show_progress_modal, last_progress, preview_image, presets,
                   sim_assignments>>
    /\ UNCHANGED <<restVars, chan, cancel>>

\* app.rs 1268-1274: self.pixeldata.write().unwrap()[i] = PixelData {..} with
\* the write guard of the colours still held, and the end of the block
GuiDrawLockPixelData ==
    /\ gui_pc = "draw_colors"
    /\ Readers("pixel_data") = {}
    /\ gui_pc' = "frame"
    /\ \E i \in PaintableSeeds :
          pixeldata' = [pixeldata EXCEPT ![i] = [stroke_id |-> stroke_count,
                                                 last_edited |-> frame_count]]
    /\ UNCHANGED <<mode, current_drawing_id, frame_count, stroke_count, colors, solvers>>
    /\ UNCHANGED <<show_progress_modal, last_progress, preview_image, presets,
                   sim_assignments>>
    /\ UNCHANGED <<restVars, chan, cancel>>

\* app.rs 192-193: apply_sim_init takes each write lock for one statement
NextLocks ==
    \/ \E k \in Sessions : drawing_process_locked(k)
    \/ /\ Readers("colors") = {}
       /\ Readers("pixel_data") = {}
       /\ (GuiEnterDraw \/ GuiReset \/ GuiLeaveDraw)
    \/ GuiDrawRecv
    \/ GuiDrawBegin
    \/ GuiDrawLockColors
    \/ GuiDrawLockPixelData

\* Drawing with the locks taken and released step by step.
SpecLocks == InitDraw /\ [][NextLocks]_vars

(***************************************************************************)
(* The swap radius of drawing mode on its own: max_dist applied to an age  *)
(* and to the next one, on the canvas of the model and on that of the      *)
(* program.                                                                *)
(***************************************************************************)
CanvasSizes == {DRAWING_CANVAS_SIZE, 128}

MaxDistCalls == [fn : {"max_dist"}, canvas_size : CanvasSizes, age : 0 .. MaxAge]

InitRadius ==
    /\ InitCanvasInputs
    /\ call \in MaxDistCalls
    /\ result = <<>>
    /\ IdleOptimal
    /\ IdleGenetic
    /\ IdleDrawing
    /\ IdleRuns
    /\ InitGui
    /\ show_progress_modal = FALSE

CallMaxDist ==
    /\ result = <<>>
    /\ call.fn = "max_dist"
    /\ result' = <<max_dist_at(call.canvas_size, call.age),
                   max_dist_at(call.canvas_size, call.age + 1)>>
    /\ UNCHANGED <<call, inputVars, optVars, genVars, chan, cancel, guiVars, drawVars,
                   runVars, rx_dropped>>

NextRadius == CallMaxDist

SpecRadius == InitRadius /\ [][NextRadius]_vars

(***************************************************************************)
(* Two runs of one local search from the same starting state, side by      *)
(* side.  The runs read the same canvas and are stopped at the same point; *)
(* they take their steps together.  generator tells how the solver gets    *)
(* its random generator:                                                   *)
(*   "with_seed"  - frand::Rand::with_seed(12345), drawing_process_genetic *)
(*   "thread_rng" - rand::thread_rng(), process_genetic of                 *)
(*                  src/src/calculate/mod.rs                               *)
(* A generator made from a seed yields the same draws in both runs;        *)
(* thread_rng is seeded by the operating system in each run.               *)
(***************************************************************************)
Runs == 1 .. 2

\* the canvas after a first stroke over seed i
StrokeColors(i) ==
    [BlankColors EXCEPT ![i] = [ch \in 1 .. 3 |->
                                   blend(BlankColors[i][ch], drawing_color[ch] * ColorUnit)]]

StrokePixelData(i) ==
    [PixelData_init_canvas(0) EXCEPT ![i] = [stroke_id |-> 1, last_edited |-> 0]]

\* the solver is asked to stop: the flag of process_genetic, the session id
\* of drawing_process_genetic
StopRequested == IF generator = "thread_rng" THEN cancel ELSE current_drawing_id # 1

\* the pixels are built from the colours (both solvers, same code)
RunsInit ==
    /\ \A r \in Runs : runs[r].sv.pc = "init"
    /\ runs' = [r \in Runs |->
                   [runs[r] EXCEPT !.sv.pixels = InitialDrawingPixels(colors),
                                   !.sv.pc = "read_colors"]]
    /\ UNCHANGED <<inputVars, rx_dropped, fnVars, optVars, genVars, drawVars, generator, chan, cancel, guiVars>>

\* the top of the loop: both runs clone the colours and the PixelData
RunsSnapshot ==
    /\ \A r \in Runs : runs[r].sv.pc = "read_colors"
    /\ \A r \in Runs : runs[r].generation < MaxGenerations
    /\ runs' = [r \in Runs |->
                   [runs[r] EXCEPT !.sv.colors = colors, !.sv.pixel_data = pixeldata,
                                   !.sv.swaps_made = 0, !.sv.swap_i = 0, !.sv.pc = "swap"]]
    /\ UNCHANGED <<inputVars, rx_dropped, fnVars, optVars, genVars, drawVars, generator, chan, cancel, guiVars>>

\* the outcomes of one proposal in the two runs
RunsOutcomes ==
    IF generator = "with_seed"
    THEN UNION {{<<DrawingProposal(runs[1].sv, apos, bpos),
                   DrawingProposal(runs[2].sv, apos, bpos)>> :
                      bpos \in DrawingPartners(runs[1].sv, apos)} :
                   apos \in 0 .. sidelen * sidelen - 1}
    ELSE DrawingOutcomes(runs[1].sv)
         \X DrawingOutcomes(runs[2].sv)

\* one proposal in each run
RunsPropose ==
    /\ \A r \in Runs : runs[r].sv.pc = "swap"
    /\ \E o \in RunsOutcomes :
          runs' = [r \in Runs |-> [runs[r] EXCEPT !.sv = AfterProposal(o[r])]]
    /\ UNCHANGED <<inputVars, rx_dropped, fnVars, optVars, genVars, drawVars, generator, chan, cancel, guiVars>>

\* the messages a run sends at the end of a generation
GenerationMessages(sv) ==
    (IF sv.swaps_made > 0
     THEN <<MsgUpdateAssignments(DrawingAssignmentsOf(sv.pixels))>> ELSE <<>>)
    \o (IF StopRequested THEN <<MsgCancelled>> ELSE <<>>)

\* the end of a generation: UpdateAssignments if a swap was made, then
\* Cancelled and return if the solver is asked to stop
RunsEndGeneration ==
    /\ \A r \in Runs : runs[r].sv.pc \in {"send_assignments", "check_id"}
    /\ runs' = [r \in Runs |->
                   [runs[r] EXCEPT !.out = runs[r].out \o GenerationMessages(runs[r].sv),
                                   !.generation = runs[r].generation + 1,
                                   !.sv.pc = IF StopRequested THEN "returned"
                                             ELSE "read_colors"]]
    /\ UNCHANGED <<inputVars, rx_dropped, fnVars, optVars, genVars, drawVars, generator, chan, cancel, guiVars>>

\* the user stops the solve: the cancel button, or a new drawing session
RunsStop ==
    /\ ~StopRequested
    /\ IF generator = "thread_rng"
       THEN cancel' = TRUE /\ UNCHANGED current_drawing_id
       ELSE current_drawing_id' = 2 /\ UNCHANGED cancel
    /\ UNCHANGED <<mode, frame_count, stroke_count, colors, pixeldata, solvers>>
    /\ UNCHANGED <<inputVars, rx_dropped, fnVars, optVars, genVars, runVars, chan, guiVars>>

InitRuns ==
    /\ IdleCalls
    /\ InitCanvasInputs
    /\ IdleOptimal
    /\ IdleGenetic
    /\ InitGui
    /\ show_progress_modal = FALSE
    /\ mode = "Draw"
    /\ current_drawing_id = 1
    /\ frame_count = 0
    /\ stroke_count = 1
    /\ \E i \in PaintableSeeds : colors = StrokeColors(i) /\ pixeldata = StrokePixelData(i)
    /\ solvers = [k \in Sessions |-> Unborn]
    /\ generator \in {"with_seed", "thread_rng"}
    /\ runs = [r \in Runs |-> [sv |-> Spawned(0), generation |-> 0, out |-> <<>>]]

NextRuns ==
    \/ RunsInit
    \/ RunsSnapshot
    \/ RunsPropose
    \/ RunsEndGeneration
    \/ RunsStop

SpecRuns == InitRuns /\ [][NextRuns]_vars

(***************************************************************************)
(* The three solvers together: a run of the program is a solve with the    *)
(* exact matcher, a solve with the local search, or a drawing.             *)
(***************************************************************************)
InitAll == InitOpt \/ InitGen \/ InitDraw

NextAll == NextOpt \/ NextGen \/ NextDraw

SpecAll == InitAll /\ [][NextAll]_vars

(***************************************************************************)
(* Properties of the exact matcher.                                        *)
(***************************************************************************)
\* the cost model applied to source pixel src placed at target cell tgt
CellCost(tgt, src) ==
    heuristic(<<src % sidelen, src \div sidelen>>, <<tgt % sidelen, tgt \div sidelen>>,
              source_pixels[src], target_pixels[tgt], weights[tgt], proximity_importance)

RECURSIVE CostUpTo(_, _)
CostUpTo(a, n) == IF n = 0 THEN 0 ELSE CellCost(n - 1, a[n - 1]) + CostUpTo(a, n - 1)

\* total cost of an assignment (target index -> source index)
AssignmentCost(a) == CostUpTo(a, nx)

IsPermutation(a) ==
    /\ DOMAIN a = 0 .. nx - 1
    /\ \A i \in DOMAIN a : a[i] \in 0 .. ny - 1
    /\ \A j \in 0 .. ny - 1 : Cardinality({i \in DOMAIN a : a[i] = j}) = 1

\* MinTable(k)[U]: the least cost of placing the source pixels of U, a set of
\* k sources, on the target cells 0..k-1, over all ways to do so
RECURSIVE MinTable(_)
MinTable(k) ==
    IF k = 0 THEN ({} :> 0)
    ELSE LET prev == MinTable(k - 1)
             Least(U) == CHOOSE m \in {prev[U \ {c}] + CellCost(k - 1, c) : c \in U} :
                            \A c \in U : m <= prev[U \ {c}] + CellCost(k - 1, c)
         IN  [U \in {V \in SUBSET (0 .. ny - 1) : Cardinality(V) = k} |-> Least(U)]
             @@ ({} :> 0)

\* the minimum total cost over all permutations
MinPermutationCost == MinTable(nx)[0 .. ny - 1]

Identity == [i \in 0 .. nx - 1 |-> i]

\* the Done messages in flight and the presets made of handled ones
DoneAssignments ==
    {chan[i].assignments : i \in {j \in 1 .. Len(chan) : chan[j].typ = "done"}}
    \cup {presets[i] : i \in 1 .. Len(presets)}

\* C2: the assignment process_optimal returns in Done has the minimum total
\* cost over all permutations of the source pixels.
C2_ExactOptimal ==
    \A a \in DoneAssignments : AssignmentCost(a) = MinPermutationCost

\* a Done whose assignment moves pixels and still costs something
C2_Witness ==
    \E a \in DoneAssignments :
        /\ a # Identity
        /\ AssignmentCost(a) > 0
        /\ AssignmentCost(a) < AssignmentCost(Identity)

\* C9: when source and target agree cell for cell, process_optimal returns the
\* identity assignment, of total cost 0, and the total it computes is 0.
C9_IdenticalImagesGiveIdentity ==
    (source_pixels = target_pixels) =>
        /\ \A a \in DoneAssignments : a = Identity /\ AssignmentCost(a) = 0
        /\ (opc = "returned" /\ root = nx) => total_diff = 0

\* identical images with repeated colours: other assignments cost 0 as well
C9_Witness ==
    /\ source_pixels = target_pixels
    /\ sidelen = 2
    /\ source_pixels[0] = source_pixels[3]
    /\ source_pixels[1] # source_pixels[0]
    /\ proximity_importance = 0
    /\ Identity \in DoneAssignments

\* C10: for the 2x2 source [red, green; blue, white] and target
\* [white, blue; green, red], uniform weights and proximity_importance 0, the
\* assignment of Done is [3, 2, 1, 0].
C10_ScenarioAssignment ==
    ScenarioInputs =>
        \A a \in DoneAssignments : a = (0 :> 3) @@ (1 :> 2) @@ (2 :> 1) @@ (3 :> 0)

C10_Witness == ScenarioInputs /\ DoneAssignments # {}

(***************************************************************************)
(* Cancellation and the channel, for the exact matcher.                    *)
(***************************************************************************)
\* the solver is at a tx.send call
OptAtSend ==
    \/ opc \in {"send_cancelled", "send_progress", "send_preview"}
    \/ opc = "root_start" /\ root = nx

\* C4: once the cancel flag is true while process_optimal iterates over roots,
\* the loop over the roots does not run to its end (which leads to Done): the
\* solve ends with Cancelled.
C4_CancelWhileIteratingEndsCancelled ==
    [][(cancel /\ root < nx) => root' < nx]_vars

\* C5: a solver that returns with cancellation requested has just sent
\* Cancelled; it does not end with Done or silently.
C5_CancelledSolveSendsCancelled ==
    [][(cancel /\ opc # "returned" /\ opc' = "returned")
        => (chan' # <<>> /\ chan'[Len(chan')].typ = "cancelled")]_vars

\* C6: a send on the progress channel never blocks the solver: at a send the
\* solver can take its step whether or not a message is pending.
C6_SendNeverBlocks == OptAtSend => ENABLED process_optimal


(***************************************************************************)
(* The cost of the local search.                                           *)
(***************************************************************************)
\* the cost model applied to the pixel that stands at cell i
PlacedCost(px, i) ==
    calc_heuristic(px[i], <<AsU16(i) % AsU16(sidelen), AsU16(i) \div AsU16(sidelen)>>,
                   target_pixels[i], weights[i])

RECURSIVE PlacedCostUpTo(_, _)
PlacedCostUpTo(px, k) ==
    IF k = 0 THEN 0 ELSE PlacedCostUpTo(px, k - 1) + PlacedCost(px, k - 1)

\* the total cost summed over all cells
TotalCost(px) == PlacedCostUpTo(px, sidelen * sidelen)

\* C3: in process_genetic the total cost summed over all cells never
\* increases in a step, and a step that changes the placement (an accepted
\* swap) strictly decreases it
C3_CostNeverIncreases ==
    [][gpc # "idle" =>
          /\ TotalCost(pixels') <= TotalCost(pixels)
          /\ (pixels' # pixels => TotalCost(pixels') < TotalCost(pixels))]_vars

\* a generation in which a swap was accepted has ended
C3_Witness ==
    /\ gpc = "send_preview"
    /\ swaps_made > 0
    /\ AssignmentsOf(pixels) # Identity

(***************************************************************************)
(* Properties of the assignments, of drawing sessions and of repeated      *)
(* runs.                                                                   *)
(***************************************************************************)
\* the assignments carried by UpdateAssignments and Done messages in flight
SentAssignments ==
    {chan[i].assignments :
        i \in {j \in 1 .. Len(chan) : chan[j].typ \in {"update_assignments", "done"}}}

\* C1: the assignment is a permutation of 0..N-1 in every reachable state: in
\* process_genetic and in every drawing solver from its start and after every
\* accepted swap, in every UpdateAssignments message and in every Done of
\* process_optimal and process_genetic.
C1_AssignmentIsPermutation ==
    /\ gpc # "idle" => IsPermutation(AssignmentsOf(pixels))
    /\ \A k \in Sessions :
          solvers[k].pc \notin {"unborn", "init", "returned"}
              => IsPermutation(DrawingAssignmentsOf(solvers[k].pixels))
    /\ \A a \in SentAssignments : IsPermutation(a)
    /\ \A a \in DoneAssignments : IsPermutation(a)

\* a drawing solver has sent the assignment it reached by swaps
C1_Witness ==
    \E k \in Sessions :
        /\ solvers[k].pc = "check_id"
        /\ solvers[k].swaps_made > 0
        /\ DrawingAssignmentsOf(solvers[k].pixels) # Identity
        /\ DrawingAssignmentsOf(solvers[k].pixels) \in SentAssignments

\* the positions at which a drawing solver is inside tx.send
AtDrawingSend(k) == solvers[k].pc \in {"send_assignments", "send_cancelled"}

\* C7: a drawing solver that a newer session has superseded is never left
\* waiting: while it is inside tx.send, the buffer has room or the UI thread
\* runs a loop that receives, so it goes on to emit Cancelled and to return.
C7_SupersededSolverNeverBlocks ==
    \A k \in Sessions :
        (k < current_drawing_id /\ AtDrawingSend(k))
            => (CanSend \/ mode = "Draw" \/ show_progress_modal)

\* C8: two runs of one matcher from the same starting state, with the same
\* inputs and the same shared-state snapshots, send the same sequence of
\* assignments.
C8_RunsSendSameAssignments ==
    generator # "none" => runs[1].out = runs[2].out

(***************************************************************************)
(* Termination of the local search.                                        *)
(***************************************************************************)
\* C11: process_genetic that is never cancelled terminates: the radius gets
\* below 4, and the solver returns after sending Done; a generation ends with
\* Done exactly when max_dist < 4 and fewer than ConvergedSwaps swaps were
\* accepted in it, and with a preview otherwise.
C11_GeneticTerminates ==
    /\ [](gpc = "send_done" => (max_dist < 4 /\ swaps_made < ConvergedSwaps))
    /\ [](gpc \in {"send_preview", "send_progress"}
             => ~(max_dist < 4 /\ swaps_made < ConvergedSwaps))
    /\ []((gpc = "returned" /\ ~cancel) => DoneAssignments # {})
    /\ (<>cancel) \/ <>(max_dist < 4)
    /\ (<>cancel) \/ <>(gpc = "returned")

\* a generation with the radius below 4 goes on because of its swaps
C11_Witness ==
    /\ gpc = "send_preview"
    /\ ~cancel
    /\ max_dist < 4
    /\ swaps_made >= ConvergedSwaps

(***************************************************************************)
(* Errors of the preparation of the inputs.                                *)
(***************************************************************************)
PreconditionViolated ==
    \/ target_dimensions[1] # target_dimensions[2]
    \/ target_dimensions # weights_dimensions

\* C12: when the target is not square or the weight image has other
\* dimensions, the solve sends one Error with a description and nothing
\* else: the only send is that of the Error, with which the thread returns,
\* the consumer sees no progress, preview, preset or cancellation, and the
\* thread is not started again.
C12_PreconditionErrorIsOneError ==
    /\ [](PreconditionViolated =>
            /\ opc \in {"get_images", "send_error", "returned"}
            /\ \A i \in 1 .. Len(chan) : chan[i].typ = "error" /\ chan[i].text # ""
            /\ Len(chan) <= 1
            /\ (opc # "returned" => chan = <<>>)
            /\ last_progress = <<0, 1>>
            /\ preview_image = None
            /\ presets = <<>>
            /\ show_progress_modal)
    /\ [][PreconditionViolated =>
            /\ (Len(chan') > Len(chan) => (opc = "send_error" /\ opc' = "returned"))
            /\ ((opc = "send_error" /\ opc' # opc) =>
                    (opc' = "returned" /\ Len(chan') = 1 /\ chan'[1].typ = "error"))
            /\ (opc = "returned" => opc' = "returned")]_vars

\* the Error of a square target with a weight image of other dimensions has
\* reached the modal
C12_Witness ==
    /\ target_dimensions[1] = target_dimensions[2]
    /\ target_dimensions # weights_dimensions
    /\ opc = "returned"
    /\ chan = <<>>
(***************************************************************************)
(* Sends after the consumer is gone.                                       *)
(***************************************************************************)
\* C13: a send that fails because the receiver is gone does not abort a
\* solver: no drawing solver returns an Err or panics because of it.
C13_FailedSendDoesNotAbort ==
    \A k \in Sessions : solvers[k].pc \notin {"returned_err", "panicked"}
(***************************************************************************)
(* The cost model.                                                         *)
(***************************************************************************)
colorSqDist(a, b) ==
    (a[1] - b[1]) * (a[1] - b[1]) + (a[2] - b[2]) * (a[2] - b[2])
        + (a[3] - b[3]) * (a[3] - b[3])

spatialSqDist(p, q) == (p[1] - q[1]) * (p[1] - q[1]) + (p[2] - q[2]) * (p[2] - q[2])

GridPos(i) == <<i % sidelen, i \div sidelen>>

\* C14: heuristic returns colorSqDist * color_weight + (spatialSqDist *
\* spatial_weight)^2; with color_weight >= 0 the cost is >= 0, and it is 0
\* when the positions and the colours coincide; at(row, col) is the negated
\* cost of the source pixel col at the target cell row, with the weight of
\* the row.
C14_HeuristicFormula ==
    result # <<>> =>
        IF call.fn = "heuristic"
        THEN /\ result[1] = colorSqDist(call.a, call.b) * call.color_weight
                          + (spatialSqDist(call.apos, call.bpos) * call.spatial_weight)
                            * (spatialSqDist(call.apos, call.bpos) * call.spatial_weight)
             /\ (call.color_weight >= 0 => result[1] >= 0)
             /\ ((call.apos = call.bpos /\ call.a = call.b) => result[1] = 0)
        ELSE result[1] = 0 - (colorSqDist(target_pixels[call.row], source_pixels[call.col])
                               * weights[call.row]
                           + (spatialSqDist(GridPos(call.row), GridPos(call.col))
                                  * proximity_importance)
                             * (spatialSqDist(GridPos(call.row), GridPos(call.col))
                                  * proximity_importance))

\* a cost with a colour part and a spatial part
C14_Witness ==
    /\ result # <<>>
    /\ call.fn = "heuristic"
    /\ call.a # call.b
    /\ call.apos # call.bpos
    /\ call.color_weight > 0
    /\ call.spatial_weight > 0
    /\ result[1] > colorSqDist(call.a, call.b) * call.color_weight

(***************************************************************************)
(* The swap radius of drawing mode.                                        *)
(***************************************************************************)
RECURSIVE Pow99Up(_)
\* an upper bound of 0.99^n in units of 1 / 1000000: every product is rounded up
Pow99Up(n) ==
    IF n = 0 THEN 1000000
    ELSE IF n = 1 THEN 990000
    ELSE MulFixed(Pow99Up(n \div 2), Pow99Up(n - n \div 2)) + 1

\* C15: max_dist(age) is (S/4) * 0.99^(age/30) rounded to the nearest integer,
\* S the side of the canvas: it lies between the roundings of the product with
\* a lower and an upper bound of the power, it is S/4 at age 0, within half a
\* unit of 0.99 * S/4 at age 30, and it does not grow with the age.
C15_MaxDistDecays ==
    (result # <<>> /\ call.fn = "max_dist") =>
        LET quarter == call.canvas_size \div 4
            n == call.age \div 30
        IN  /\ 2000000 * result[1] <= 2 * quarter * Pow99Up(n) + 1000000
            /\ 2000000 * (result[1] + 1) > 2 * quarter * Pow99(n) + 1000000
            /\ Pow99Up(n) - Pow99(n) <= n
            /\ (call.age = 0 => result[1] = quarter)
            /\ (call.age = 30 => (200 * result[1] <= 198 * quarter + 100
                                  /\ 200 * result[1] >= 198 * quarter - 100))
            /\ result[2] <= result[1]

\* the radius of a canvas of 128 at an age at which it has shrunk
C15_Witness ==
    /\ result # <<>>
    /\ call.fn = "max_dist"
    /\ call.canvas_size = 128
    /\ call.age > 30
    /\ result[1] < 32
    /\ result[1] > 0

(***************************************************************************)
(* Feasible labels of the exact matcher                                    *)
(***************************************************************************)
\* the matching loop is running or has ended: the labels exist
InMatchingLoop ==
    opc \in {"root_start", "search", "augment", "report", "send_cancelled",
             "send_progress", "send_preview", "returned"}

\* C16: at every point of the matching loop of process_optimal (after the
\* initialisation, after every label update, after every augmentation) the
\* labels are feasible, lx[x] + ly[y] >= weight(x, y) for every x and y; the
\* loop starts from lx[x] = the largest weight of row x and ly[y] = 0
C16_LabelsFeasible ==
    InMatchingLoop =>
        /\ \A x \in 0 .. nx - 1 : \A yy \in 0 .. ny - 1 : lx[x] + ly[yy] >= at(x, yy)
        /\ (opc = "root_start" /\ root = 0) =>
               /\ \A yy \in 0 .. ny - 1 : ly[yy] = 0
               /\ \A x \in 0 .. nx - 1 :
                      /\ \A yy \in 0 .. ny - 1 : lx[x] >= at(x, yy)
                      /\ \E yy \in 0 .. ny - 1 : lx[x] = at(x, yy)

\* the labels of both sides have been updated by a positive delta, and a
\* later root is being searched
C16_Witness ==
    /\ opc = "search"
    /\ root > 0
    /\ \E yy \in 0 .. ny - 1 : ly[yy] > 0
    /\ \E x \in 0 .. nx - 1 : lx[x] < InitialLx[x]

(***************************************************************************)
(* Searches and augmentations of the exact matcher                         *)
(***************************************************************************)
\* the y nodes selected so far by the search of the current root
SelectedYs == {yy \in 0 .. ny - 1 : alternating[yy] # None}

\* the targets that have a source
MatchedXs == {x \in 0 .. nx - 1 : xy[x] # None}

\* C17: the search of every root ends within ny selections at an unmatched
\* y: every selection takes a y that was not selected before, so there are at
\* most ny of them, and the search stops at a y without a partner. Flipping
\* the path matches the root, raises the number of matched targets by exactly
\* one and keeps every matched target matched; after the last root every
\* target is matched and the step the solver takes is the emission of Done.
C17_SearchesAugmentAndEnd ==
    /\ [](InMatchingLoop =>
            /\ Cardinality(SelectedYs) <= ny
            /\ (opc = "search" =>
                    \E yy \in 0 .. ny - 1 : alternating[yy] = None /\ slack[yy] < max_value)
            /\ (opc = "augment" => y \in SelectedYs /\ yx[y] = None)
            /\ (opc = "root_start" => MatchedXs = 0 .. root - 1)
            /\ (root = nx => \A x \in 0 .. nx - 1 : xy[x] # None))
    /\ [][(opc = "search" /\ optVars' # optVars) =>
            /\ Cardinality(SelectedYs') = Cardinality(SelectedYs) + 1
            /\ SelectedYs \subseteq SelectedYs'
            /\ opc' \in {"search", "augment"}]_vars
    /\ [][(opc = "augment" /\ optVars' # optVars) =>
            /\ xy'[root] # None
            /\ Cardinality(MatchedXs') = Cardinality(MatchedXs) + 1
            /\ MatchedXs \subseteq MatchedXs'
            /\ \A x \in MatchedXs' : yx'[xy'[x]] = x]_vars
    /\ [][(opc = "root_start" /\ root = nx /\ optVars' # optVars) =>
            /\ opc' = "returned"
            /\ chan' = Append(chan, MsgDone(xy))]_vars

\* the last root has been matched by a path of several selections, which
\* moved earlier targets to other sources, and every target is matched
C17_Witness ==
    /\ opc = "root_start"
    /\ root = nx
    /\ nx > 1
    /\ Cardinality(SelectedYs) >= 2
    /\ MatchedXs = 0 .. nx - 1

(***************************************************************************)
(* The acceptance rule of the local search                                 *)
(***************************************************************************)
\* the cost of the pixel that stands at cell from if it stood at cell to
CostAt(px, from, to) ==
    colorSqDist(px[from].rgb, target_pixels[to]) * weights[to]
    + (spatialSqDist(<<px[from].src_x, px[from].src_y>>, GridPos(to))
       * proximity_importance) ^ 2

\* the same for a drawing solver: the cost with the live colours it read, and
\* the stroke reward
DrawingCostAt(sv, from, to) ==
    I64Add([rewards |-> 0,
            cost |-> calc_drawing_heuristic(sv.pixels[from], GridPos(to), target_pixels[to],
                                            weights[to], sv.colors)],
           stroke_reward(to, from, sv.pixel_data, sv.pixels))

\* the entries a and b exchanged, with the cached costs ha at a and hb at b
Exchanged(px, a, b, ha, hb) ==
    [px EXCEPT ![a] = [px[b] EXCEPT !.h = ha], ![b] = [px[a] EXCEPT !.h = hb]]

\* the radius a drawing solver uses for cell c
DrawingRadius(sv, c) ==
    max_dist_of(saturating_sub(sv.frame_count, sv.pixel_data[c].last_edited))

AxisDistance(a, b) ==
    LET dx == GridPos(a)[1] - GridPos(b)[1]
        dy == GridPos(a)[2] - GridPos(b)[2]
        abs(v) == IF v < 0 THEN 0 - v ELSE v
    IN  IF abs(dx) > abs(dy) THEN abs(dx) ELSE abs(dy)

\* the pair (a, b) is one a drawing solver evaluates
DrawingEvaluates(sv, a, b) ==
    /\ AxisDistance(a, b) <= DrawingRadius(sv, a)
    /\ AxisDistance(a, b) <= DrawingRadius(sv, b)

\* one proposal of process_genetic on the pair (a, b) took the step
BatchProposalStep(a, b) ==
    LET b_at_a == CostAt(pixels, b, a)
        a_at_b == CostAt(pixels, a, b)
    IN  IF (pixels[a].h - b_at_a) + (pixels[b].h - a_at_b) > 0
        THEN /\ pixels' = Exchanged(pixels, a, b, b_at_a, a_at_b)
             /\ swaps_made' = swaps_made + 1
             /\ a # b
        ELSE /\ pixels' = pixels
             /\ swaps_made' = swaps_made

\* one proposal of drawing solver k on the pair (a, b) took the step
DrawingProposalStep(k, a, b) ==
    LET sv == solvers[k]
        b_at_a == DrawingCostAt(sv, b, a)
        a_at_b == DrawingCostAt(sv, a, b)
    IN  IF /\ DrawingEvaluates(sv, a, b)
           /\ I64Positive(I64Add(I64Sub(sv.pixels[a].h, b_at_a),
                                 I64Sub(sv.pixels[b].h, a_at_b)))
        THEN /\ solvers'[k].pixels = Exchanged(sv.pixels, a, b, b_at_a, a_at_b)
             /\ solvers'[k].swaps_made = sv.swaps_made + 1
             /\ DrawingAssignmentsOf(solvers'[k].pixels)
                    = [i \in DOMAIN sv.pixels |->
                          DrawingAssignmentsOf(sv.pixels)[IF i = a THEN b
                                                          ELSE IF i = b THEN a ELSE i]]
        ELSE /\ solvers'[k].pixels = sv.pixels
             /\ solvers'[k].swaps_made = sv.swaps_made

ChangedCells(px, qx) == {i \in DOMAIN px : px[i] # qx[i]}

\* C19: every pair (a, b) the local search evaluates lies inside the grid
\* with b within max_dist of a on both axes; a drawing solver evaluates a pair
\* only if it is within the radius of b as well, so every accepted swap
\* exchanges two cells whose axis distance is at most the smaller of the two
\* radii.
C19_PairsWithinRadius ==
    /\ [](gpc = "swap" =>
            \A a \in Cells(sidelen) : \A b \in Partners(a) :
                b \in Cells(sidelen) /\ AxisDistance(a, b) <= max_dist)
    /\ [](\A k \in Sessions : solvers[k].pc = "swap" =>
            \A a \in Cells(sidelen) : \A b \in DrawingPartners(solvers[k], a) :
                b \in Cells(sidelen) /\ AxisDistance(a, b) <= DrawingRadius(solvers[k], a))
    /\ [][(gpc = "swap" /\ pixels' # pixels) =>
            \E a \in Cells(sidelen) : \E b \in Cells(sidelen) :
                /\ ChangedCells(pixels, pixels') \subseteq {a, b}
                /\ AxisDistance(a, b) <= max_dist]_vars
    /\ [][\A k \in Sessions :
            (solvers[k].pc = "swap" /\ solvers'[k].pixels # solvers[k].pixels) =>
                \E a \in Cells(sidelen) : \E b \in Cells(sidelen) :
                    /\ ChangedCells(solvers[k].pixels, solvers'[k].pixels) \subseteq {a, b}
                    /\ AxisDistance(a, b) <= DrawingRadius(solvers[k], a)
                    /\ AxisDistance(a, b) <= DrawingRadius(solvers[k], b)]_vars

\* a drawing solver has accepted a swap of two cells while its radius, the
\* one of fresh cells, does not span the canvas
C19_Witness ==
    \E k \in Sessions :
        /\ solvers[k].pc = "send_assignments"
        /\ solvers[k].swaps_made > 0
        /\ max_dist_of(0) < sidelen - 1
        /\ \E a \in Cells(sidelen) : \E b \in Cells(sidelen) :
              /\ a # b
              /\ AxisDistance(a, b) <= max_dist_of(0)
              /\ ChangedCells(solvers[k].pixels, InitialDrawingPixels(BlankColors)) = {a, b}

(***************************************************************************)
(* The swap radius of a cell and the frames since its last edit            *)
(***************************************************************************)
\* C20: in drawing mode the swap radius of a cell tracks how recently it was
\* edited: when a generation starts (the solver has read the colours and the
\* PixelData), the radius it uses for a cell last edited k frames before the
\* current frame is max_dist(k), so the radius of a cell that is left alone
\* shrinks as the frames pass.
C20_RadiusTracksRecency ==
    [][\A k \in Sessions :
          (solvers[k].pc = "read_pixel_data" /\ solvers'[k].pc = "swap") =>
              \A c \in Cells(sidelen) :
                  DrawingRadius(solvers'[k], c)
                      = max_dist_of(frame_count' - solvers'[k].pixel_data[c].last_edited)]_vars

(***************************************************************************)
(* Progress reports of the exact matcher                                   *)
(***************************************************************************)
\* C21: process_optimal reports progress (Progress(root / nx) and a preview
\* of the partial matching, unmatched targets shown as source 0) after every
\* ProgressCadence-th root and also immediately before returning: the step
\* that brings the solver to the emission of Done is the send of a preview of
\* the completed matching, so a report of the completed matching precedes
\* Done.
C21_ReportPrecedesDone ==
    [][/\ (opc = "augment" /\ opc' # opc /\ root % ProgressCadence = 0) => opc' = "report"
       /\ (opc = "send_progress" /\ opc' # opc) =>
              chan' = Append(chan, MsgProgress(root, nx))
       /\ (opc = "send_preview" /\ opc' # opc) =>
              chan' = Append(chan, MsgUpdatePreview(make_new_img(
                          [x \in 0 .. nx - 1 |-> IF xy[x] = None THEN 0 ELSE xy[x]])))
       /\ (opc' = "root_start" /\ root' = nx /\ root # nx) =>
              (opc = "send_preview" /\ \A x \in 0 .. nx - 1 : xy[x] # None)]_vars

(***************************************************************************)
(* The stroke reward                                                       *)
(***************************************************************************)
\* the stroke of the seed that stands at cell c in the snapshot of solver sv
StrokeAt(sv, c) ==
    sv.pixel_data[sv.pixels[c].src_y * DRAWING_CANVAS_SIZE + sv.pixels[c].src_x].stroke_id

\* the cells of the canvas next to cell c in a row or in a column
FourNeighbours(c) ==
    {n \in CanvasCells :
        \/ (n \div DRAWING_CANVAS_SIZE = c \div DRAWING_CANVAS_SIZE
            /\ (n = c + 1 \/ n = c - 1))
        \/ n = c + DRAWING_CANVAS_SIZE
        \/ n = c - DRAWING_CANVAS_SIZE}

\* the rewards in the two cached costs and in the two candidate costs of the
\* proposal (a, b), and the gain of the proposal in cost alone
RewardsHeld(sv, a, b) == sv.pixels[a].h.rewards + sv.pixels[b].h.rewards
RewardsOffered(sv, a, b) ==
    DrawingCostAt(sv, a, b).rewards + DrawingCostAt(sv, b, a).rewards
CostGain(sv, a, b) ==
    (sv.pixels[a].h.cost - DrawingCostAt(sv, b, a).cost)
    + (sv.pixels[b].h.cost - DrawingCostAt(sv, a, b).cost)

HeldAt(pc) ==
    IF pc = "clone_colors" THEN {"colors"}
    ELSE IF pc = "clone_pixel_data" THEN {"pixel_data"}
    ELSE {}

\* C23: drawing_process_genetic holds the read lock of the colours, and that
\* of the pixel metadata, only while it clones them at the start of a
\* generation: it holds none in the swap loop, while it sends or while it
\* waits for the other lock, and the step it takes with a lock releases it.
\* Its steps change neither the colours, the pixel metadata nor the session
\* counter.  A writer and a reader never hold the colours together, and
\* whenever the painting UI waits for a write lock it can take it or every
\* reader in its way can finish its clone; whenever a solver waits for the
\* colours the UI can go on or every reader in the way of the UI can.
C23_LocksOnlyWhileCloning ==
    /\ [](/\ \A k \in Sessions : solvers[k].held = HeldAt(solvers[k].pc)
          /\ UiWrites("colors") => Readers("colors") = {}
          /\ gui_pc = "draw_wait_colors" =>
                 \/ ENABLED GuiDrawLockColors
                 \/ \A k \in Readers("colors") : ENABLED CloneColors(k)
          /\ gui_pc = "draw_colors" =>
                 \/ ENABLED GuiDrawLockPixelData
                 \/ \A k \in Readers("pixel_data") : ENABLED ClonePixelData(k)
          /\ \A k \in Sessions :
                 (solvers[k].pc = "read_colors" /\ ~ENABLED LockColors(k)) =>
                     /\ gui_pc = "draw_colors"
                     /\ \/ ENABLED GuiDrawLockPixelData
                        \/ \A j \in Readers("pixel_data") : ENABLED ClonePixelData(j))
    /\ [][/\ \A k \in Sessions :
                (solvers[k].held # {} /\ solvers'[k] # solvers[k]) =>
                    solvers'[k].held = {}
          /\ (solvers' # solvers /\ current_drawing_id' = current_drawing_id
                                 /\ mode' = mode) =>
                UNCHANGED <<colors, pixeldata, frame_count, stroke_count,
                            sim_assignments, gui_pc>>]_vars

\* the UI holds the write lock of the colours and waits for that of the
\* pixel metadata behind a solver that clones it, while the solver of the next
\* session waits for the colours
C23_Witness ==
    /\ gui_pc = "draw_colors"
    /\ \E k \in Sessions :
          /\ solvers[k].pc = "clone_pixel_data"
          /\ "pixel_data" \in solvers[k].held
          /\ \E j \in Sessions \ {k} : solvers[j].pc = "read_colors"

(***************************************************************************)
(* The assignments drawing mode publishes.                                 *)
(***************************************************************************)
\* the messages of the channel that carry assignments
AssignmentMessages(ch) ==
    {i \in 1 .. Len(ch) : ch[i].typ = "update_assignments"}

\* C24: in drawing_process_genetic swaps_made counts the proposals of the
\* generation that exchanged two pixels; the generation ends at the send of
\* UpdateAssignments if swaps_made > 0 and at the check of the session
\* counter, with nothing sent, if it is 0; the message sent carries, for every
\* cell, the source index of the pixel held there at the send, which is a
\* permutation of the cells; and no other step of drawing mode puts an
\* UpdateAssignments on the channel.
C24_PublishesIffSwapped ==
    [][/\ \A k \in Sessions :
             /\ (solvers[k].pc = "swap" /\ solvers'[k] # solvers[k]) =>
                    /\ solvers'[k].swaps_made =
                           solvers[k].swaps_made
                               + (IF solvers'[k].pixels # solvers[k].pixels THEN 1 ELSE 0)
                    /\ solvers'[k].pc = "send_assignments" <=>
                           (solvers[k].swap_i + 1 = swaps_per_generation
                               /\ solvers'[k].swaps_made > 0)
                    /\ solvers'[k].pc = "check_id" <=>
                           (solvers[k].swap_i + 1 = swaps_per_generation
                               /\ solvers'[k].swaps_made = 0)
                    /\ chan' = chan
             /\ (solvers[k].pc = "read_pixel_data" /\ solvers'[k] # solvers[k]) =>
                    solvers'[k].swaps_made = 0
             /\ (solvers[k].pc = "send_assignments" /\ solvers'[k] # solvers[k]) =>
                    /\ solvers[k].swaps_made > 0
                    /\ solvers'[k].pc = "check_id"
                    /\ chan' = Append(chan, MsgUpdateAssignments(
                                   [i \in CanvasCells |->
                                       solvers[k].pixels[i].src_y * sidelen
                                           + solvers[k].pixels[i].src_x]))
                    /\ {chan'[Len(chan')].assignments[i] : i \in CanvasCells} = CanvasCells
       /\ Cardinality(AssignmentMessages(chan')) > Cardinality(AssignmentMessages(chan)) =>
             \E k \in Sessions : /\ solvers[k].pc = "send_assignments"
                                 /\ solvers'[k].pc = "check_id"]_vars

\* a solver has sent the assignments of a generation with a swap, which are
\* still in the channel, while the solver of the other session ended a
\* generation without a swap and sent nothing
C24_Witness ==
    \E k \in Sessions :
       /\ solvers[k].pc = "check_id"
       /\ solvers[k].swaps_made > 0
       /\ chan # <<>>
       /\ chan[Len(chan)] = MsgUpdateAssignments(DrawingAssignmentsOf(solvers[k].pixels))
       /\ \E i \in CanvasCells : chan[Len(chan)].assignments[i] # i
       /\ \E j \in Sessions \ {k} : /\ solvers[j].pc = "check_id"
                                    /\ solvers[j].swaps_made = 0

(***************************************************************************)
(* The width of the arithmetic.  The costs of the largest grid of the      *)
(* settings do not fit the integers of the model checker: they are         *)
(* computed here on sequences of digits of base 2^15, least digit first.   *)
(***************************************************************************)
WideBase == 2 ^ 15

RECURSIVE WideOf(_)
\* a natural number below 2^31 as digits
WideOf(n) == IF n = 0 THEN <<>> ELSE <<n % WideBase>> \o WideOf(n \div WideBase)

RECURSIVE WideAddC(_, _, _)
WideAddC(a, b, c) ==
    IF a = <<>> /\ b = <<>> THEN WideOf(c)
    ELSE LET d == (IF a = <<>> THEN 0 ELSE Head(a)) + (IF b = <<>> THEN 0 ELSE Head(b)) + c
         IN  <<d % WideBase>> \o WideAddC(IF a = <<>> THEN a ELSE Tail(a),
                                          IF b = <<>> THEN b ELSE Tail(b), d \div WideBase)

WideAdd(a, b) == WideAddC(a, b, 0)

RECURSIVE WideScale(_, _, _)
\* a times the digit d, plus the carry c
WideScale(a, d, c) ==
    IF a = <<>> THEN WideOf(c)
    ELSE <<(Head(a) * d + c) % WideBase>>
             \o WideScale(Tail(a), d, (Head(a) * d + c) \div WideBase)

RECURSIVE WideMul(_, _)
WideMul(a, b) ==
    IF a = <<>> THEN <<>>
    ELSE WideAdd(WideScale(b, Head(a), 0), <<0>> \o WideMul(Tail(a), b))

\* the value is at most i64::MAX = 2^63 - 1: 63 = 4 * 15 + 3
WideFitsI64(a) ==
    \A i \in DOMAIN a : /\ i > 5 => a[i] = 0
                        /\ i = 5 => a[i] < 2 ^ 3

\* gui.rs 634-649: the sliders of the settings
MaxResolution == 256
MaxProximity == 50
\* the largest u8, of a colour channel and of a weight read from weights.png
MaxChannel == 255

\* a faulty variant of WideHeuristic: the spatial term to the third power
WideHeuristic_SpatialCubed(apos, bpos, a, b, color_weight, spatial_weight) ==
    LET spatial == (apos[1] - bpos[1]) ^ 2 + (apos[2] - bpos[2]) ^ 2
        color   == (a[1] - b[1]) ^ 2 + (a[2] - b[2]) ^ 2 + (a[3] - b[3]) ^ 2
        scaled  == WideOf(spatial * spatial_weight)
    IN  WideAdd(WideOf(color * color_weight), WideMul(scaled, WideMul(scaled, scaled)))

\* heuristic (mod.rs 81-95) on wide numbers.  spatial and color are sums of
\* squares of differences of u16 and u8 values; for the grids of the settings
\* they and their products with the weights are below 2^31.
WideHeuristic(apos, bpos, a, b, color_weight, spatial_weight) ==
    LET spatial == (apos[1] - bpos[1]) ^ 2 + (apos[2] - bpos[2]) ^ 2
        color   == (a[1] - b[1]) ^ 2 + (a[2] - b[2]) ^ 2 + (a[3] - b[3]) ^ 2
        scaled  == WideOf(spatial * spatial_weight)
    IN  WideAdd(WideOf(color * color_weight), WideMul(scaled, scaled))

\* the magnitude of STROKE_REWARD (drawing_process.rs 79): 10000000000
WideStrokeReward == WideMul(WideOf(100000), WideOf(100000))

\* the costs at the ends of the ranges of the settings: the corners of the
\* largest grid, black and white, the weights 0 and 255, the proximity
\* importance 0 and 50
WideCosts ==
    LET ends == {0, MaxResolution - 1}
        shades == {<<c, c, c>> : c \in {0, MaxChannel}}
    IN  {WideHeuristic(<<ax, ay>>, <<bx, by>>, a, b, cw, sw) :
            ax \in ends, ay \in ends, bx \in ends, by \in ends,
            a \in shades, b \in shades,
            cw \in {0, MaxChannel}, sw \in {0, MaxProximity}}

\* the largest magnitude of a weight of the instance being solved
LargestWeight ==
    LET all == {0 - at(row, col) : row \in 0 .. nx - 1, col \in 0 .. ny - 1}
    IN  CHOOSE m \in all : \A w \in all : w <= m

\* C25: with sides up to 256, 8-bit colours and weights and a proximity
\* importance up to 50, every cost fits i64, and so do three times a cost (a
\* slack lx + ly - weight, a sum of two improvements), a cost plus the stroke
\* reward and 256 * 256 times a cost (a sum of labels, the total).  In
\* process_optimal every label lx is between minus the largest cost of the
\* instance and 0, every label ly between 0 and the largest cost, every slack
\* between 0 and twice the largest cost, so that these bounds cover the label,
\* slack and delta updates.  An index below 256 * 256 is unchanged by "as
\* u16", and a coordinate plus or minus a radius of at most 256 by "as i16".
C25_NoOverflow ==
    /\ \A h \in WideCosts :
          /\ WideFitsI64(h)
          /\ WideFitsI64(WideAdd(h, WideAdd(h, h)))
          /\ WideFitsI64(WideAdd(h, WideStrokeReward))
          /\ WideFitsI64(WideMul(WideOf(MaxResolution * MaxResolution), h))
    /\ \A i \in {0, MaxResolution * MaxResolution - 1} : AsU16(i) = i
    /\ AsU16(MaxResolution) = MaxResolution
    /\ MaxResolution - 1 + MaxResolution < 2 ^ 15
    /\ InMatchingLoop =>
          /\ \A x \in 0 .. nx - 1 : lx[x] <= 0 /\ lx[x] >= 0 - LargestWeight
          /\ \A yy \in 0 .. ny - 1 : ly[yy] >= 0 /\ ly[yy] <= LargestWeight
          /\ opc \in {"search", "augment"} =>
                \A yy \in 0 .. ny - 1 : slack[yy] >= 0 /\ slack[yy] <= 2 * LargestWeight

\* a search of process_optimal has lowered a label lx to minus the largest
\* cost of the instance and raised a label ly
C25_Witness ==
    /\ opc = "search"
    /\ LargestWeight > 0
    /\ \E x \in 0 .. nx - 1 : lx[x] < InitialLx[x]
    /\ \E yy \in 0 .. ny - 1 : ly[yy] > 0 /\ slack[yy] = 0
    /\ \E yy \in 0 .. ny - 1 : slack[yy] > 0

(***************************************************************************)
(* The cached costs of process_genetic.                                    *)
(***************************************************************************)
\* C26: while process_genetic runs, the cost h cached with the pixel at every
\* position i is the cost of that pixel at i: its colour against the target
\* colour of i times the weight of i, plus the square of its squared distance
\* from its source cell to i times the proximity importance.  A proposal is
\* accepted exactly if the sum of these costs goes down with the exchange.
C26_CacheNeverStale ==
    /\ [](gpc # "idle" =>
             \A i \in 0 .. sidelen * sidelen - 1 : pixels[i].h = CostAt(pixels, i, i))
    /\ [][gpc = "swap" =>
             /\ pixels' # pixels =>
                   \E a, b \in 0 .. sidelen * sidelen - 1 :
                      /\ pixels' = Exchanged(pixels, a, b, CostAt(pixels, b, a),
                                              CostAt(pixels, a, b))
                      /\ CostAt(pixels, a, a) + CostAt(pixels, b, b)
                             > CostAt(pixels, a, b) + CostAt(pixels, b, a)
             /\ \A i \in 0 .. sidelen * sidelen - 1 :
                   pixels'[i].h = CostAt(pixels', i, i)]_vars

\* an exchange has moved two pixels of different colours away from their
\* source cells, and their cached costs are the costs at the new cells
C26_Witness ==
    /\ gpc = "swap"
    /\ swaps_made > 0
    /\ \E a, b \in 0 .. sidelen * sidelen - 1 :
          /\ a # b
          /\ pixels[a].rgb # pixels[b].rgb
          /\ GridPos(a) # <<pixels[a].src_x, pixels[a].src_y>>
          /\ GridPos(b) # <<pixels[b].src_x, pixels[b].src_y>>
          /\ pixels[a].h = CostAt(pixels, a, a)
          /\ pixels[a].h # CostAt(pixels, a, b)

(***************************************************************************)
(* The matching of process_optimal and its labels.                         *)
(***************************************************************************)
\* the weight of the matching: the sum of at(x, xy[x]) over the matched x
MatchingWeight ==
    LET picked == [x \in 0 .. nx - 1 |-> IF xy[x] = None THEN 0 ELSE at(x, xy[x])]
    IN  SumOf(picked, nx)

\* C27: in process_optimal, between the roots and after the last one, xy and
\* yx are inverse to each other on the matched nodes, root nodes are matched,
\* every matched pair is tight (lx[x] + ly[xy[x]] = weight), every unmatched y
\* has the label 0 and, once every x is matched, the sum of all labels is the
\* weight of the matching, which is minus the cost of the assignment.
C27_LabelsSumToMatching ==
    (InMatchingLoop /\ opc \notin {"search", "augment"}) =>
        /\ \A x \in 0 .. nx - 1 : xy[x] # None => yx[xy[x]] = x
        /\ \A yy \in 0 .. ny - 1 : yx[yy] # None => xy[yx[yy]] = yy
        /\ Cardinality(MatchedXs) = Cardinality({yy \in 0 .. ny - 1 : yx[yy] # None})
        /\ \A x \in MatchedXs : lx[x] + ly[xy[x]] = at(x, xy[x])
        /\ \A yy \in 0 .. ny - 1 : yx[yy] = None => ly[yy] = 0
        /\ MatchedXs = 0 .. nx - 1 =>
              /\ total_diff = MatchingWeight
              /\ total_diff = 0 - AssignmentCost(xy)

\* the last root is done with a matching that is not the identity, with a
\* raised label ly, and the labels sum to a negative total
C27_Witness ==
    /\ opc = "root_start"
    /\ root = nx
    /\ \E x \in 0 .. nx - 1 : xy[x] # x
    /\ \E yy \in 0 .. ny - 1 : ly[yy] > 0
    /\ total_diff < 0
    /\ total_diff = MatchingWeight

(***************************************************************************)
(* The sessions of drawing mode.                                           *)
(***************************************************************************)
\* C28: a solver of drawing mode puts its assignments on the channel only
\* while its id is the value of the session counter, and when a session
\* starts no assignments of an earlier session wait in the channel, so that
\* the assignments the UI applies are those of the solver of the session.
C28_SupersededNeverPublishes ==
    [][/\ \A k \in Sessions :
             (/\ solvers[k].pc = "send_assignments"
              /\ solvers'[k].pc = "check_id"
              /\ Cardinality(AssignmentMessages(chan'))
                     > Cardinality(AssignmentMessages(chan))) =>
                 k = current_drawing_id
       /\ current_drawing_id' # current_drawing_id => AssignmentMessages(chan') = {}]_vars

(***************************************************************************)
(* The order in which the consumer handles the messages.                   *)
(***************************************************************************)
\* C29: whenever the consumer takes a message it takes the oldest one that
\* waits, so that messages are handled in the order of their emission, and
\* when the handling of a message closes the progress modal no message is
\* left waiting.
C29_HandledInEmissionOrder ==
    [][/\ Len(chan') < Len(chan) => chan' = Tail(chan)
       /\ (show_progress_modal /\ ~show_progress_modal') => chan' = <<>>]_vars

(***************************************************************************)
(* The messages drawing mode receives.                                     *)
(***************************************************************************)
\* C30: the loop of Draw mode handles every message it takes from the
\* progress channel without a panic of the UI thread.
C30_DrawModeHandlesEveryMessage == gui_pc # "panicked"

====
